---- MODULE Spec2Model ----
(***************************************************************************)
(* A model of the API-interception scraper (src/scraper/api_scraper.py):   *)
(* the capture buffer, the probe loop, the selection and merge of the      *)
(* captured product lists, the product extraction and the pagination       *)
(* resolution of ApiScraper.scrape.                                        *)
(*                                                                         *)
(* JSON values are tagged records: Null, Bool(b), Num(n), Str(s), List(xs) *)
(* and Dict(d).  A string is a sequence of one-character strings, so that  *)
(* strip(), replace() and the regular expression of the price cleaning are *)
(* computed character by character.  A dict is a function from key names   *)
(* to JSON values; "k in d" is k \in DOMAIN d.                             *)
(***************************************************************************)
EXTENDS Integers, Sequences, FiniteSets, TLC

VARIABLES
  pc,                 \* where the scrape call (or the parse call) stands
  url,                \* the url argument of scrape
  api_responses,      \* self.api_responses, the capture buffer
  last_response,      \* the response the observer handled last, Null before the first
  result,             \* the value the call returned, Null before it returns
  data,               \* the argument of _parse_api_products
  settings,           \* settings.api_force_all_products, settings.api_cache_config
  cache_file,         \* the content of config/api_config_cache.json
  cache_write,        \* the cache write of this call: "none", "ok" or "failed"
  products_count,     \* len of the primary capture's products
  best_config,        \* the cached best config read at probe start
  test_configs,       \* the ordered probe candidates
  probe_i,            \* the position in test_configs of the next probe
  max_products_found, \* the running maximum of the probe loop
  best_config_found,  \* the best candidate of the probe loop
  probe_log,          \* the probes made so far: candidate, success, count
  api_response,       \* what the last direct request gave, Null before the first
  scraper,            \* self.playwright, self.browser, self.context, self.page
  url_i,              \* the URLs scrape_multiple_urls has gone through
  all_products,       \* len(all_products) of scrape_multiple_urls
  handlers,           \* the response observers registered on self.page
  urls,               \* the urls argument of scrape_multiple_urls
  max_pages,          \* the max_pages argument of scrape_all_pages_api
  current_url,        \* current_url of scrape_all_pages_api
  page_num,           \* page_num of scrape_all_pages_api
  all_products_api,   \* all_products of scrape_all_pages_api
  self_delay,         \* self.delay of the scraper
  max_retries,        \* the max_retries argument of retry_with_backoff
  initial_delay,      \* its initial_delay argument
  backoff_factor,     \* its backoff_factor argument
  attempt,            \* attempt of the wrapper's loop
  delay,              \* delay of the wrapper
  last_exception,     \* last_exception of the wrapper
  calls               \* the calls made so far: scrapes, waits, sleeps, func

vars == <<pc, url, api_responses, last_response, result, data, settings, cache_file, cache_write,
          products_count, best_config, test_configs, probe_i, max_products_found,
          best_config_found, probe_log, api_response, scraper, url_i, all_products,
          handlers, urls, max_pages, current_url, page_num, all_products_api,
          self_delay, max_retries, initial_delay, backoff_factor, attempt, delay,
          last_exception, calls>>

\* The scraper's browser resources and the caller's loop.
mainVars == <<scraper, url_i, all_products>>

\* The locals of scrape_all_pages_api and the scraper's delay.
driverVars == <<urls, max_pages, current_url, page_num, all_products_api, self_delay>>

\* The arguments and the locals of retry_with_backoff.
retryVars == <<max_retries, initial_delay, backoff_factor, attempt, delay, last_exception>>

\* What the callers of scrape and the retry wrapper hold.
callerVars == <<driverVars, retryVars, calls>>

probeVars == <<settings, cache_file, cache_write, products_count, best_config,
               test_configs, probe_i, max_products_found, best_config_found,
               probe_log, api_response>>

-----------------------------------------------------------------------------
(* JSON values and the Python operations the scraper applies to them.      *)

Null == [t |-> "null"]
Bool(b) == [t |-> "bool", b |-> b]
Num(n) == [t |-> "num", n |-> n]
Str(s) == [t |-> "str", s |-> s]
List(xs) == [t |-> "list", xs |-> xs]
Dict(d) == [t |-> "dict", d |-> d]

EmptyDict == Dict(<<>>)

IsDict(v) == v.t = "dict"
IsList(v) == v.t = "list"

\* Python truthiness: bool(v).
Truthy(v) ==
  CASE v.t = "null" -> FALSE
    [] v.t = "bool" -> v.b
    [] v.t = "num" -> v.n # 0
    [] v.t = "str" -> Len(v.s) > 0
    [] v.t = "list" -> Len(v.xs) > 0
    [] v.t = "dict" -> DOMAIN v.d # {}

\* k in item, for a dict item.
HasKey(item, k) == k \in DOMAIN item.d

\* item.get(k): the value, or None.
Get(item, k) == IF HasKey(item, k) THEN item.d[k] ELSE Null

DigitChar(n) == <<"0", "1", "2", "3", "4", "5", "6", "7", "8", "9">>[n + 1]

RECURSIVE NatToStr(_)
NatToStr(n) == IF n < 10 THEN <<DigitChar(n)>>
               ELSE NatToStr(n \div 10) \o <<DigitChar(n % 10)>>

\* str(v) for the scalar values the model feeds to it.
PyStr(v) ==
  CASE v.t = "str" -> v.s
    [] v.t = "num" -> IF v.n < 0 THEN <<"-">> \o NatToStr(-v.n) ELSE NatToStr(v.n)
    [] v.t = "null" -> <<"N", "o", "n", "e">>
    [] v.t = "bool" -> IF v.b THEN <<"T", "r", "u", "e">> ELSE <<"F", "a", "l", "s", "e">>
    [] v.t = "list" -> <<"[", "]">>
    [] v.t = "dict" -> <<"{", "}">>

Whitespace == {" "}

RECURSIVE LStrip(_)
LStrip(s) == IF s # <<>> /\ Head(s) \in Whitespace THEN LStrip(Tail(s)) ELSE s

RECURSIVE RStrip(_)
RStrip(s) == IF s # <<>> /\ s[Len(s)] \in Whitespace
             THEN RStrip(SubSeq(s, 1, Len(s) - 1)) ELSE s

\* s.strip()
Strip(s) == RStrip(LStrip(s))

\* s.replace(c, "") for a one-character c.
RemoveChar(s, c) == SelectSeq(s, LAMBDA x : x # c)

NumericChars == {"0", "1", "2", "3", "4", "5", "6", "7", "8", "9", "."}

RECURSIVE RunEnd(_, _)
\* The end of the maximal run of NumericChars of s that starts at i.
RunEnd(s, i) == IF i < Len(s) /\ s[i + 1] \in NumericChars THEN RunEnd(s, i + 1) ELSE i

\* re.search(r'[\d.]+', s): the match, or Null for no match.
ReSearchNumeric(s) ==
  LET starts == {i \in 1..Len(s) : s[i] \in NumericChars}
  IN IF starts = {} THEN Null
     ELSE LET i == CHOOSE j \in starts : \A k \in starts : j <= k
          IN Str(SubSeq(s, i, RunEnd(s, i)))

-----------------------------------------------------------------------------
(* Product extraction: _extract_product_from_api_item.                     *)

name_fields == <<"name", "productName", "title", "productTitle", "nombre",
                 "descripcion", "description", "productDescription">>

price_fields == <<"price", "precio", "cost", "costo", "amount", "valor",
                  "unitPrice", "unit_price", "salePrice", "sale_price">>

RECURSIVE ResolveName(_, _)
\* The loop over name_fields from position i on: the first alias that is
\* present with a truthy value supplies str(value).strip() and ends the loop.
ResolveName(item, i) ==
  IF i > Len(name_fields) THEN Null
  ELSE IF HasKey(item, name_fields[i]) /\ Truthy(item.d[name_fields[i]])
       THEN Str(Strip(PyStr(item.d[name_fields[i]])))
       ELSE ResolveName(item, i + 1)

\* The cleaning of one non-None price value: strip, drop Q, $ and the comma,
\* strip, then the first match of [\d.]+ when there is one; the cleaned text
\* itself stays when nothing matches.
CleanPrice(price_value) ==
  LET price == Strip(RemoveChar(RemoveChar(RemoveChar(
                 Strip(PyStr(price_value)), "Q"), "$"), ","))
      price_match == ReSearchNumeric(price)
  IN IF price_match # Null THEN price_match ELSE Str(price)

RECURSIVE ResolvePriceTruthy(_, _)
\* The price loop with a falsy value (zero, empty) taken as no price.
ResolvePriceTruthy(item, i) ==
  IF i > Len(price_fields) THEN Null
  ELSE IF HasKey(item, price_fields[i])
       THEN IF Truthy(item.d[price_fields[i]])
            THEN CleanPrice(item.d[price_fields[i]])
            ELSE Null
       ELSE ResolvePriceTruthy(item, i + 1)

RECURSIVE ResolvePrice(_, _)
\* The loop over price_fields from position i on: the first alias that is
\* present ends the loop, with a cleaned price when its value is not None.
ResolvePrice(item, i) ==
  IF i > Len(price_fields) THEN Null
  ELSE IF HasKey(item, price_fields[i])
       THEN IF item.d[price_fields[i]] # Null
            THEN CleanPrice(item.d[price_fields[i]])
            ELSE Null
       ELSE ResolvePrice(item, i + 1)

\* One optional field of a product.
Field(cond, k, v) == IF cond THEN k :> v ELSE <<>>

OfferFields(item) ==
  IF HasKey(item, "offer") /\ IsDict(item.d["offer"])
  THEN LET offer == item.d["offer"]
       IN Field(Truthy(Get(offer, "price")), "offer_price",
                Str(PyStr(Get(offer, "price"))))
          @@ Field(Truthy(Get(offer, "description")), "offer_description",
                   Str(Strip(PyStr(Get(offer, "description")))))
  ELSE <<>>

ImageFields(item) ==
  IF HasKey(item, "thumbnail") /\ IsDict(item.d["thumbnail"])
  THEN Field(HasKey(item.d["thumbnail"], "url"), "image_url",
             Get(item.d["thumbnail"], "url"))
  ELSE IF HasKey(item, "images") /\ IsList(item.d["images"])
          /\ Len(item.d["images"].xs) > 0
       THEN LET first == item.d["images"].xs[1]
            IN Field(IsDict(first) /\ HasKey(first, "url"), "image_url",
                     Get(first, "url"))
       ELSE <<>>

CategoryFields(item) ==
  IF HasKey(item, "subcategory") /\ IsDict(item.d["subcategory"])
  THEN LET subcat == item.d["subcategory"]
       IN Field(HasKey(subcat, "name"), "subcategory",
                Str(Strip(PyStr(Get(subcat, "name")))))
          @@ (IF HasKey(subcat, "category") /\ IsDict(subcat.d["category"])
              THEN Field(HasKey(subcat.d["category"], "name"), "category",
                         Str(Strip(PyStr(Get(subcat.d["category"], "name")))))
              ELSE <<>>)
  ELSE <<>>

\* _extract_product_from_api_item(item): the product (a Dict), or Null.
extract_product_from_api_item(item) ==
  IF ~IsDict(item) THEN Null
  ELSE LET name == ResolveName(item, 1)
           price == ResolvePrice(item, 1)
       IN IF Truthy(name)
          THEN Dict(("name" :> name) @@ ("price" :> price)
                    @@ Field(HasKey(item, "description"), "description",
                             Str(Strip(PyStr(Get(item, "description")))))
                    @@ Field(HasKey(item, "barcode"), "barcode", Get(item, "barcode"))
                    @@ Field(HasKey(item, "stock"), "stock", Get(item, "stock"))
                    @@ OfferFields(item)
                    @@ ImageFields(item)
                    @@ CategoryFields(item)
                    @@ ("raw_data" :> item))
          ELSE Null

-----------------------------------------------------------------------------
(* Container lookup: _parse_api_products.                                  *)

possible_keys == <<"products", "items", "data", "results", "content">>

RECURSIVE ExtractAll(_)
\* The products of the items of a sequence, in order, the None results dropped.
ExtractAll(xs) ==
  IF xs = <<>> THEN <<>>
  ELSE LET product == extract_product_from_api_item(Head(xs))
       IN (IF product # Null THEN <<product>> ELSE <<>>) \o ExtractAll(Tail(xs))

RECURSIVE parse_api_products(_)
RECURSIVE ParseKeys(_, _)
\* The loop over possible_keys from position i on, entered with no product
\* found so far: the first key that yields a product ends the loop.
ParseKeys(d, i) ==
  IF i > Len(possible_keys) THEN <<>>
  ELSE IF HasKey(d, possible_keys[i])
       THEN LET value == d.d[possible_keys[i]]
                found == IF IsList(value) THEN ExtractAll(value.xs)
                         ELSE IF IsDict(value) THEN parse_api_products(value)
                         ELSE <<>>
            IN IF found # <<>> THEN found ELSE ParseKeys(d, i + 1)
       ELSE ParseKeys(d, i + 1)

\* _parse_api_products without the last resort of taking the mapping itself
\* as one item.
parse_api_products_keys_only(d) ==
  IF IsList(d) THEN ExtractAll(d.xs)
  ELSE IF IsDict(d) THEN ParseKeys(d, 1)
  ELSE <<>>

\* _parse_api_products(data): the list of products.
parse_api_products(d) ==
  IF IsList(d) THEN ExtractAll(d.xs)
  ELSE IF IsDict(d)
       THEN LET products == ParseKeys(d, 1)
            IN IF products # <<>> THEN products
               ELSE LET product == extract_product_from_api_item(d)
                    IN IF product # Null THEN <<product>> ELSE <<>>
       ELSE <<>>

\* _parse_subcategory_data(data)
parse_subcategory_data(d) == parse_api_products(d)

-----------------------------------------------------------------------------
(* ApiScraper.scrape after probing: selection of the primary payload, merge *)
(* of the captured product lists, extraction, pagination resolution.        *)
(* A captured response is [url |-> [host, path], method, status, body]; a   *)
(* URL that carries a query string has a query field as well, the sequence *)
(* of the texts the query is made of.                                      *)

ApiHost == "msf-api.gta.com.gt"
ProductsPath == "/api/products"
SubcategoryPath == "/api/catalog/subcategory"

\* The text of a URL, as the sequence of its parts: host, path, and the parts
\* of the query string when there is one.
UrlText(u) == <<u.host, u.path>> \o (IF "query" \in DOMAIN u THEN u.query ELSE <<>>)

\* `parts in url` for a text made of consecutive parts: a substring test over
\* the whole URL, host, path and query alike.
InUrl(parts, u) ==
  \E i \in 1..(Len(UrlText(u)) - Len(parts) + 1) :
    SubSeq(UrlText(u), i, i + Len(parts) - 1) = parts

\* "/api/products" in resp_url
IsProductsUrl(u) == InUrl(<<ProductsPath>>, u)

\* "/api/catalog/subcategory" in resp_url
IsSubcategoryUrl(u) == InUrl(<<SubcategoryPath>>, u)

\* len(products_list) if it is a list, else 0, of body.get("products", []).
ProductCountOf(body) ==
  IF IsDict(body) /\ HasKey(body, "products") /\ IsList(body.d["products"])
  THEN Len(body.d["products"].xs)
  ELSE 0

\* The selection test with a tie counted as more.
IsMoreProductsOrEqual(product_count, max_products) == product_count >= max_products

\* product_count > max_products
IsMoreProducts(product_count, max_products) == product_count > max_products

RECURSIVE SelectFrom(_, _, _)
\* The selection loop from position i on; sel = [max_products, products_data,
\* subcategory_data].  A products response replaces products_data only when
\* its count is strictly greater than max_products.
SelectFrom(responses, i, sel) ==
  IF i > Len(responses) THEN sel
  ELSE LET response == responses[i]
           body == response.body
       IN IF IsProductsUrl(response.url) /\ Truthy(body)
          THEN IF IsMoreProducts(ProductCountOf(body), sel.max_products)
               THEN SelectFrom(responses, i + 1,
                      [sel EXCEPT !.max_products = ProductCountOf(body),
                                  !.products_data = body])
               ELSE SelectFrom(responses, i + 1, sel)
          ELSE IF IsSubcategoryUrl(response.url) /\ Truthy(body)
               THEN SelectFrom(responses, i + 1, [sel EXCEPT !.subcategory_data = body])
               ELSE SelectFrom(responses, i + 1, sel)

SelectPayloads(responses) ==
  SelectFrom(responses, 1,
             [max_products |-> 0, products_data |-> Null, subcategory_data |-> Null])

RECURSIVE AllProductsLists(_)
\* all_products_lists: the "products" list of every products response whose
\* body is a dict holding a list under "products", in capture order.
AllProductsLists(responses) ==
  IF responses = <<>> THEN <<>>
  ELSE LET response == Head(responses)
           body == response.body
       IN (IF IsProductsUrl(response.url) /\ IsDict(body)
              /\ HasKey(body, "products") /\ IsList(body.d["products"])
           THEN <<body.d["products"].xs>> ELSE <<>>)
          \o AllProductsLists(Tail(responses))

RECURSIVE Flatten(_)
\* The items of the lists, list after list.
Flatten(lists) == IF lists = <<>> THEN <<>> ELSE Head(lists) \o Flatten(Tail(lists))

\* The member of seen_barcodes a barcode is: True and 1, False and 0 are equal
\* and hash alike in Python.
BarcodeKey(barcode) ==
  IF barcode.t = "bool" THEN Num(IF barcode.b THEN 1 ELSE 0) ELSE barcode

\* The merge loop with seen_barcodes never added to: every item with a truthy
\* barcode is appended.
MergeFromNoSeen(items, seen_barcodes, merged_products) ==
  merged_products \o SelectSeq(items, LAMBDA product : Truthy(Get(product, "barcode")))

RECURSIVE MergeFrom(_, _, _)
\* The merge loop over the flattened items: an item is appended when its
\* barcode is truthy and not in seen_barcodes.
MergeFrom(items, seen_barcodes, merged_products) ==
  IF items = <<>> THEN merged_products
  ELSE LET product == Head(items)
           barcode == Get(product, "barcode")
       IN IF Truthy(barcode) /\ BarcodeKey(barcode) \notin seen_barcodes
          THEN MergeFrom(Tail(items), seen_barcodes \cup {BarcodeKey(barcode)},
                         Append(merged_products, product))
          ELSE MergeFrom(Tail(items), seen_barcodes, merged_products)

MergeProducts(lists) == MergeFrom(Flatten(lists), {}, <<>>)

\* The merge loop raises: product.get on an item that is no dict
\* (AttributeError), or an unhashable barcode tested against the set
\* (TypeError).
MergeRaises(lists) ==
  \E i \in 1..Len(Flatten(lists)) :
    LET product == Flatten(lists)[i]
    IN \/ ~IsDict(product)
       \/ /\ Truthy(Get(product, "barcode"))
          /\ Get(product, "barcode").t \in {"list", "dict"}

\* products_data after the merge step: with more than one list and a dict
\* products_data, its "products" is the merged list.
MergedPayload(responses) ==
  LET products_data == SelectPayloads(responses).products_data
      all_products_lists == AllProductsLists(responses)
  IN IF Len(all_products_lists) > 1 /\ Truthy(products_data) /\ IsDict(products_data)
     THEN Dict([k \in DOMAIN products_data.d \cup {"products"} |->
                  IF k = "products" THEN List(MergeProducts(all_products_lists))
                  ELSE products_data.d[k]])
     ELSE products_data

-----------------------------------------------------------------------------
(* Pagination resolution (the end of ApiScraper.scrape).                   *)
(* A page URL is [path |-> the path's segments, query |-> the sequence of  *)
(* <<name, value>> pairs of the query string, the values decoded].         *)

pagination_fields == <<"pagination", "pageInfo", "page_info", "paging", "meta">>

RECURSIVE FindPagination(_, _)
\* The loop over pagination_fields from position i on: the first field
\* present supplies pagination_info, whatever its value; else None.
FindPagination(products_data, i) ==
  IF i > Len(pagination_fields) THEN Null
  ELSE IF HasKey(products_data, pagination_fields[i])
       THEN products_data.d[pagination_fields[i]]
       ELSE FindPagination(products_data, i + 1)

\* d.get(k1, d.get(k2, default))
Get2(d, k1, k2, default) ==
  IF HasKey(d, k1) THEN d.d[k1] ELSE IF HasKey(d, k2) THEN d.d[k2] ELSE default

\* The number a value counts as in a comparison or a sum (bool is an int).
IsNumber(v) == v.t \in {"num", "bool"}
NumberOf(v) == IF v.t = "bool" THEN (IF v.b THEN 1 ELSE 0) ELSE v.n

RECURSIVE ParseQsFrom(_, _)
\* parse_qs(query): name -> list of values, in order of first appearance;
\* a pair with an empty value is dropped (keep_blank_values is off).
ParseQsFrom(pairs, params) ==
  IF pairs = <<>> THEN params
  ELSE LET name == Head(pairs)[1]
           value == Head(pairs)[2]
           at == {i \in 1..Len(params) : params[i][1] = name}
       IN IF value = <<>> THEN ParseQsFrom(Tail(pairs), params)
          ELSE IF at = {}
               THEN ParseQsFrom(Tail(pairs), Append(params, <<name, <<value>>>>))
               ELSE ParseQsFrom(Tail(pairs),
                      [i \in 1..Len(params) |->
                         IF i \in at THEN <<name, Append(params[i][2], value)>>
                         ELSE params[i]])

parse_qs(query) == ParseQsFrom(query, <<>>)

\* params[name] = values
SetParam(params, name, values) ==
  IF \E i \in 1..Len(params) : params[i][1] = name
  THEN [i \in 1..Len(params) |->
          IF params[i][1] = name THEN <<name, values>> ELSE params[i]]
  ELSE Append(params, <<name, values>>)

RECURSIVE PairsOf(_, _)
PairsOf(name, values) ==
  IF values = <<>> THEN <<>>
  ELSE <<<<name, Head(values)>>>> \o PairsOf(name, Tail(values))

RECURSIVE urlencode(_)
\* urlencode(params, doseq=True): one pair per value, name after name.
urlencode(params) ==
  IF params = <<>> THEN <<>>
  ELSE PairsOf(Head(params)[1], Head(params)[2]) \o urlencode(Tail(params))

\* The next-page URL with the page parameter left at the current page.
NextPageUrlSamePage(u, current_page) ==
  [u EXCEPT !.query =
     urlencode(SetParam(parse_qs(u.query), "page", <<NatToStr(current_page)>>))]

\* The next-page URL built from the request URL and the current page number.
NextPageUrl(u, current_page) ==
  [u EXCEPT !.query =
     urlencode(SetParam(parse_qs(u.query), "page", <<NatToStr(current_page + 1)>>))]

\* The page test with the last page counted as having a successor.
HasMorePagesInclusive(current_page, total_pages) ==
  NumberOf(current_page) <= NumberOf(total_pages)

\* current_page < total_pages, for numbers.
HasMorePages(current_page, total_pages) ==
  NumberOf(current_page) < NumberOf(total_pages)

\* The pagination block: [pagination_info, next_page_url, raises].  raises is
\* the TypeError of comparing or adding page values that are no numbers.
ResolvePagination(u, products_data) ==
  LET none == [pagination_info |-> Null, next_page_url |-> Null, raises |-> FALSE]
  IN IF ~(Truthy(products_data) /\ IsDict(products_data)) THEN none
     ELSE LET pagination_info == FindPagination(products_data, 1)
              found == [none EXCEPT !.pagination_info = pagination_info]
          IN IF ~(Truthy(pagination_info) /\ IsDict(pagination_info)) THEN found
             ELSE LET has_next == Get2(pagination_info, "hasNext", "has_next", Bool(FALSE))
                      next_page == Get2(pagination_info, "nextPage", "next_page", Null)
                      current_page == Get2(pagination_info, "currentPage", "current_page", Num(1))
                      total_pages == Get2(pagination_info, "totalPages", "total_pages", Null)
                  IN IF ~(Truthy(has_next) \/ Truthy(next_page)) THEN found
                     ELSE IF ~Truthy(total_pages) THEN found
                     ELSE IF ~(IsNumber(current_page) /\ IsNumber(total_pages))
                          THEN [found EXCEPT !.raises = TRUE]
                     ELSE IF HasMorePages(current_page, total_pages)
                          THEN [found EXCEPT !.next_page_url =
                                  NextPageUrl(u, NumberOf(current_page))]
                          ELSE found

-----------------------------------------------------------------------------
(* The result of ApiScraper.scrape from the capture buffer on.             *)

\* The error result without its products and product_count.
ErrorResultBare(u) == [url |-> u, error |-> "error"]

\* The dict the except branch of scrape returns.
ErrorResult(u) ==
  [url |-> u, products |-> <<>>, product_count |-> 0, error |-> "error"]

PageResult(u, responses) ==
  LET sel == SelectPayloads(responses)
      all_products_lists == AllProductsLists(responses)
  IN IF Len(all_products_lists) > 1 /\ MergeRaises(all_products_lists)
     THEN ErrorResult(u)
     ELSE LET products_data == MergedPayload(responses)
              subcategory_data == sel.subcategory_data
              products == IF Truthy(products_data) THEN parse_api_products(products_data)
                          ELSE IF Truthy(subcategory_data)
                               THEN parse_subcategory_data(subcategory_data)
                               ELSE <<>>
              pagination == ResolvePagination(u, products_data)
          IN IF pagination.raises THEN ErrorResult(u)
             ELSE [url |-> u,
                   products |-> products,
                   product_count |-> Len(products),
                   api_responses |-> Len(responses),
                   pagination |-> pagination.pagination_info,
                   next_page |-> pagination.next_page_url,
                   raw_data |-> [products |-> products_data,
                                 subcategory |-> subcategory_data]]

-----------------------------------------------------------------------------
(* Bounds and input domains.                                               *)

\* The most items the product lists of one capture buffer hold together.
MaxItems == 3
\* The most responses the observer captures in one scrape call.
MaxResponses == 2
\* The most scrape calls on one scraper.
MaxScrapes == 2

\* The sequences over S of length at most n.
SeqsUpTo(S, n) == UNION {[1..k -> S] : k \in 0..n}

\* settings.catalog_url
CatalogSegment == <<"c", "a", "t", "a", "l", "o", "g">>

CatalogUrl ==
  [path |-> <<CatalogSegment, <<"9">>>>,
   query |-> <<<<"minPrice", <<"0">>>>, <<"maxPrice", <<"2", "2", "5">>>>>>]

\* Raw API items: two instances of one barcode, a second barcode, three
\* items without a barcode (no key, null, empty), a nameless item and an
\* element that is no mapping.
ItemA1 == Dict([name |-> Str(<<"A">>), barcode |-> Str(<<"1">>), stock |-> Num(1)])
ItemA2 == Dict([name |-> Str(<<"A">>), barcode |-> Str(<<"1">>), stock |-> Num(2)])
ItemB == Dict([name |-> Str(<<"B">>), barcode |-> Str(<<"2">>)])
ItemNoKey == Dict([name |-> Str(<<"A">>), price |-> Str(<<"5">>)])
ItemNullBarcode == Dict([name |-> Str(<<"A">>), price |-> Str(<<"5">>), barcode |-> Null])
ItemEmptyBarcode == Dict([name |-> Str(<<"A">>), price |-> Str(<<"5">>), barcode |-> Str(<<>>)])
ItemNameless == Dict([barcode |-> Str(<<"3">>), price |-> Str(<<"5">>)])
ItemScalar == Str(<<"x">>)

RawItems == {ItemA1, ItemA2, ItemB, ItemNoKey, ItemNullBarcode, ItemEmptyBarcode,
             ItemNameless, ItemScalar}

ApiUrl(path) == [host |-> ApiHost, path |-> path]

\* A URL of another host whose query string names a URL of the API host,
\* as the request of an analytics script does for the page it reports.
ReferringUrl ==
  [host |-> "www.google-analytics.com", path |-> "/collect",
   query |-> <<"?dl=https://", ApiHost, ProductsPath>>]

\* What response.json() gives for a body that is no JSON: an exception.
JsonRaises == [t |-> "raises"]

\* A network response as the observer sees it; json is the parsed body, or
\* JsonRaises.
NetResponse(u, content_type, status, json) ==
  [url |-> u, content_type |-> content_type, status |-> status,
   method |-> "POST", json |-> json]

\* The items a body adds to the buffer's product lists.
ItemsIn(body) == ProductCountOf(body)

RECURSIVE TotalItems(_)
TotalItems(responses) ==
  IF responses = <<>> THEN 0
  ELSE ItemsIn(Head(responses).body) + TotalItems(Tail(responses))

\* The responses the network delivers while the page loads, with at most n
\* items in a product list.
NetResponses(n) ==
  {NetResponse(ApiUrl(ProductsPath), "application/json", 200, Dict([products |-> List(xs)])) :
     xs \in SeqsUpTo(RawItems, n)}
  \cup {NetResponse(ApiUrl(SubcategoryPath), "application/json", 200,
                    Dict([items |-> List(<<ItemNoKey>>)])),
        NetResponse(ApiUrl(ProductsPath), "application/json", 200, List(<<ItemB>>)),
        NetResponse(ApiUrl("/api/other"), "application/json", 404, EmptyDict),
        NetResponse(ApiUrl(ProductsPath), "text/html", 200, EmptyDict),
        NetResponse(ApiUrl(ProductsPath), "application/json", 200, JsonRaises),
        NetResponse([host |-> "www.misuperfresh.com.gt", path |-> ProductsPath],
                    "application/json", 200, EmptyDict),
        NetResponse(ReferringUrl, "application/json", 200, EmptyDict)}

-----------------------------------------------------------------------------
(* The scrape call: interception set-up, the response observer, and the    *)
(* part of scrape that turns the capture buffer into the result.           *)

\* The cache file does not exist.
NoFile == [t |-> "nofile"]

\* Settings.__init__ with no environment variable set: both flags are true.
DefaultSettings == [api_force_all_products |-> TRUE, api_cache_config |-> TRUE]

\* The probe block's variables before the block is entered.
\* The four resources after _start_browser went through, in the order they
\* are started.
Resources == <<"playwright", "browser", "context", "page">>

Started == [r \in {Resources[i] : i \in 1..4} |-> "open"]

\* No caller's loop and no retry wrapper is running.
CallerIdle ==
  /\ urls = <<>>
  /\ max_pages = 0
  /\ current_url = Null
  /\ page_num = 0
  /\ all_products_api = <<>>
  /\ self_delay = 0
  /\ max_retries = 0
  /\ initial_delay = 0
  /\ backoff_factor = 0
  /\ attempt = 0
  /\ delay = 0
  /\ last_exception = Null
  /\ calls = <<>>

\* The scraper as its constructor leaves it, outside any caller's loop.
MainIdle ==
  /\ last_response = Null
  /\ scraper = Started
  /\ url_i = 0
  /\ all_products = 0
  /\ CallerIdle

ProbeIdle ==
  /\ MainIdle
  /\ settings = DefaultSettings
  /\ cache_file = NoFile
  /\ cache_write = "none"
  /\ products_count = 0
  /\ best_config = Null
  /\ test_configs = <<>>
  /\ probe_i = 0
  /\ max_products_found = 0
  /\ best_config_found = Null
  /\ probe_log = <<>>
  /\ api_response = Null

\* _setup_api_interception at the start of a scrape call: the buffer is
\* emptied and one more observer is registered on the page, those of the
\* earlier calls stay registered.
SetupInterception ==
  /\ pc \in {"idle", "done"}
  /\ handlers < MaxScrapes
  /\ pc' = "navigating"
  /\ api_responses' = <<>>
  /\ handlers' = handlers + 1
  /\ result' = Null
  /\ UNCHANGED <<callerVars, mainVars, last_response, url, data, probeVars>>

\* "application/json" in content_type or "json" in content_type.lower()
IsJsonContentType(content_type) == content_type = "application/json"

\* handle_response appending an entry without a body when the body is no JSON.
ObserveUnparsed(responses, response) ==
  IF InUrl(<<ApiHost>>, response.url) /\ IsJsonContentType(response.content_type)
  THEN Append(responses, [url |-> response.url, method |-> response.method,
                          status |-> response.status,
                          body |-> IF response.json = JsonRaises THEN Null
                                   ELSE response.json])
  ELSE responses

\* The buffer after handle_response(response).
Observe(responses, response) ==
  IF InUrl(<<ApiHost>>, response.url) /\ IsJsonContentType(response.content_type)
     /\ response.json # JsonRaises
  THEN Append(responses, [url |-> response.url, method |-> response.method,
                          status |-> response.status, body |-> response.json])
  ELSE responses

RECURSIVE ObserveAll(_, _, _)
\* The buffer after each of n registered observers has handled the response.
ObserveAll(responses, response, n) ==
  IF n = 0 THEN responses
  ELSE ObserveAll(Observe(responses, response), response, n - 1)

\* A response arrives: every observer registered on the page handles it.
HandleResponse ==
  /\ pc = "navigating"
  /\ Len(api_responses) < MaxResponses
  /\ \E r \in NetResponses((MaxItems - TotalItems(api_responses)) \div handlers) :
       /\ last_response' = r
       /\ api_responses' = ObserveAll(api_responses, r, handlers)
  /\ UNCHANGED <<callerVars, handlers, mainVars, pc, url, result, data, probeVars>>

\* The primary response could not be read (captured_response stays None):
\* scrape waits wait_time and skips the probe block.
NoPrimary ==
  /\ pc = "navigating"
  /\ pc' = "merging"
  /\ UNCHANGED <<callerVars, handlers, mainVars, last_response, url, api_responses, result, data, probeVars>>

\* scrape from the selection of the payloads to the returned result.
Finish ==
  /\ pc = "merging"
  /\ result' = PageResult(url, api_responses)
  /\ pc' = "done"
  /\ UNCHANGED <<callerVars, handlers, mainVars, last_response, url, api_responses, data, probeVars>>

Init ==
  /\ pc = "idle"
  /\ url = CatalogUrl
  /\ api_responses = <<>>
  /\ result = Null
  /\ data = Null
  /\ handlers = 0
  /\ ProbeIdle

Next == SetupInterception \/ HandleResponse \/ NoPrimary \/ Finish

Spec == Init /\ [][Next]_vars

-----------------------------------------------------------------------------
(* The merge step (Spec).                                                  *)

\* The number of positions of xs that satisfy P.
CountIn(xs, P(_)) == Cardinality({i \in 1..Len(xs) : P(xs[i])})

\* The items of every captured products list, in capture order.
CapturedItems == Flatten(AllProductsLists(api_responses))

\* The scrape returned a result whose product list went through the merge.
MergeRan ==
  /\ pc = "done"
  /\ "error" \notin DOMAIN result
  /\ Len(AllProductsLists(api_responses)) > 1
  /\ result.raw_data.products # Null

MergedList == result.raw_data.products.d["products"].xs

\* An item with no barcode: the key is missing, or its value is null or "".
Barcodeless(item) ==
  /\ IsDict(item)
  /\ \/ "barcode" \notin DOMAIN item.d
     \/ item.d["barcode"] = Null
     \/ item.d["barcode"] = Str(<<>>)

\* An item with a barcode, a non-empty string.
Barcoded(item) ==
  /\ IsDict(item)
  /\ "barcode" \in DOMAIN item.d
  /\ item.d["barcode"].t = "str"
  /\ item.d["barcode"].s # <<>>

\* The positions of xs that carry barcode b.
PositionsOf(xs, b) == {i \in 1..Len(xs) : Barcoded(xs[i]) /\ xs[i].d["barcode"] = b}

Least(S) == CHOOSE i \in S : \A j \in S : i <= j

\* C1: in the merge step every barcode-less item of the captured product
\* lists is kept: the merged list has one entry per barcode-less input item.
C1_BarcodelessKept ==
  MergeRan => CountIn(MergedList, Barcodeless) = CountIn(CapturedItems, Barcodeless)

\* C2: in the merge step each distinct barcode of the captured product lists
\* appears exactly once in the merged list, the kept instance is the earliest
\* one in capture order, and the kept instances stand in capture order.
C2_FirstBarcodeKept ==
  MergeRan =>
    LET F == CapturedItems
        M == MergedList
        Barcodes == {F[i].d["barcode"] : i \in {k \in 1..Len(F) : Barcoded(F[k])}}
    IN /\ \A b \in Barcodes :
            /\ Cardinality(PositionsOf(M, b)) = 1
            /\ M[Least(PositionsOf(M, b))] = F[Least(PositionsOf(F, b))]
       /\ \A b, c \in Barcodes :
            Least(PositionsOf(F, b)) < Least(PositionsOf(F, c))
              => Least(PositionsOf(M, b)) < Least(PositionsOf(M, c))

\* A merge of lists in which a later item repeats the barcode of an earlier,
\* different item, and a second barcode follows.
C2_Witness ==
  /\ MergeRan
  /\ Len(MergedList) >= 2
  /\ \E i, j \in 1..Len(CapturedItems) :
       /\ i < j
       /\ Barcoded(CapturedItems[i]) /\ Barcoded(CapturedItems[j])
       /\ CapturedItems[i].d["barcode"] = CapturedItems[j].d["barcode"]
       /\ CapturedItems[i] # CapturedItems[j]

\* An item with a name.
Named(item) == IsDict(item) /\ "name" \in DOMAIN item.d /\ item.d["name"].t = "str"
               /\ item.d["name"].s # <<>>

\* The scrape returned a result from exactly one captured products list, all
\* of whose elements are mappings.
SingleList ==
  /\ pc = "done"
  /\ "error" \notin DOMAIN result
  /\ Len(AllProductsLists(api_responses)) = 1
  /\ \A i \in 1..Len(CapturedItems) : IsDict(CapturedItems[i])

\* C8: fed one list of raw items, the products hold exactly one Product per
\* distinct barcode of the named items and no Product of a nameless item.
C8_SingleListDeduplicated ==
  SingleList =>
    /\ \A i \in 1..Len(CapturedItems) :
         Named(CapturedItems[i]) /\ Barcoded(CapturedItems[i])
           => Cardinality({j \in 1..Len(result.products) :
                             /\ "barcode" \in DOMAIN result.products[j].d
                             /\ result.products[j].d["barcode"]
                                  = CapturedItems[i].d["barcode"]}) = 1
    /\ \A j \in 1..Len(result.products) : Named(result.products[j].d["raw_data"])

\* A step of the observer: the page is still loading after it.
ObserverStep == pc = "navigating" /\ pc' = "navigating"

\* The response is one the observer reads: its URL names the API host and
\* its content type is JSON.
Matches(r) ==
  /\ \E i \in 1..Len(UrlText(r.url)) : UrlText(r.url)[i] = "msf-api.gta.com.gt"
  /\ r.content_type = "application/json"

\* The step part of C20: a matching response with a JSON body is appended to
\* the buffer, after the entries the buffer held, and any other response, one
\* whose body is no JSON included, leaves the buffer as it was.
ObserverCaptures ==
  ObserverStep =>
    IF Matches(last_response') /\ last_response'.json # [t |-> "raises"]
    THEN /\ Len(api_responses') > Len(api_responses)
         /\ SubSeq(api_responses', 1, Len(api_responses)) = api_responses
         /\ \A i \in (Len(api_responses) + 1)..Len(api_responses') :
              api_responses'[i] =
                [url |-> last_response'.url, method |-> last_response'.method,
                 status |-> last_response'.status, body |-> last_response'.json]
    ELSE api_responses' = api_responses

\* The state part of C20: the page keeps loading whatever the observer was
\* given, and no captured entry holds a body that failed to parse.
ObserverNeverRaises ==
  /\ last_response # Null => pc \in {"navigating", "merging", "done"}
  /\ \A i \in 1..Len(api_responses) : api_responses[i].body # [t |-> "raises"]

\* C20: the response observer never raises: a matching response whose body
\* fails to parse as JSON adds nothing to the capture buffer and leaves the
\* captured entries unchanged, and the responses after it are still captured.
C20_ObserverNeverRaises == []ObserverNeverRaises /\ [][ObserverCaptures]_vars

\* The observer was given a matching response with a body that is no JSON
\* after it had captured one: the buffer still holds that one entry.
C20_Witness ==
  /\ pc = "navigating"
  /\ Len(api_responses) = 1
  /\ Matches(last_response)
  /\ last_response.json = JsonRaises
  /\ api_responses[1].body # Null

\* C22: in every reachable state of a scrape call every entry of the capture
\* buffer has a URL on the API host msf-api.gta.com.gt; a response of any
\* other host is never appended.
C22_OnlyApiHostRetained ==
  \A i \in 1..Len(api_responses) : api_responses[i].url.host = "msf-api.gta.com.gt"

\* A step of the observer on a matching response whose body is JSON.
CaptureStep ==
  /\ ObserverStep
  /\ last_response' # last_response \/ api_responses' # api_responses
  /\ Matches(last_response')
  /\ last_response'.json # [t |-> "raises"]

\* C28: exactly-once capture: each matching JSON response that arrives
\* during a scrape call adds exactly one entry to the call's capture buffer,
\* whatever the number of scrape calls that came before on the scraper.
C28_CapturedExactlyOnce ==
  [][CaptureStep => Len(api_responses') = Len(api_responses) + 1]_vars

-----------------------------------------------------------------------------
(* Pagination resolution (SpecPage): one scrape call per request URL and   *)
(* captured primary payload.                                               *)

\* The largest page number of a pagination descriptor.
MaxPage == 3
\* The most parameters of a request URL's query string.
MaxQuery == 2

Absent == [t |-> "absent"]

\* A dict entry k: v, or nothing when v is Absent.
Opt(k, v) == IF v = Absent THEN <<>> ELSE k :> v

PageNumbers == {Num(n) : n \in 1..MaxPage}

PageDescriptors ==
  {Dict(Opt("hasNext", a) @@ Opt("has_next", b) @@ Opt("nextPage", c)
        @@ Opt("currentPage", d) @@ Opt("totalPages", e)) :
     a \in {Absent, Bool(TRUE), Bool(FALSE)},
     b \in {Absent, Bool(TRUE)},
     c \in {Absent, Num(2)},
     d \in {Absent, Null} \cup PageNumbers,
     e \in {Absent, Num(0)} \cup PageNumbers}
  \cup {Dict([has_next |-> Bool(TRUE), current_page |-> Num(1), total_pages |-> Num(2)]),
        Dict([next_page |-> Num(2), current_page |-> Num(2), total_pages |-> Num(2)]),
        Dict([hasNext |-> Bool(TRUE), currentPage |-> Num(1), totalPages |-> Str(<<"2">>)]),
        List(<<Num(1)>>),
        Null}

PageBodies ==
  {Dict(("products" :> List(<<ItemB>>)) @@ (field :> descriptor)) :
     field \in {"pagination", "meta"}, descriptor \in PageDescriptors}
  \cup {Dict([products |-> List(<<ItemB>>)]),
        Dict([products |-> List(<<>>),
              pagination |-> Dict([hasNext |-> Bool(TRUE), currentPage |-> Num(1),
                                   totalPages |-> Num(2)])])}

QueryPairs == {<<name, value>> : name \in {"page", "q"}, value \in {<<>>, <<"2">>, <<"7">>}}

PageUrls == {[path |-> CatalogUrl.path, query |-> q] : q \in SeqsUpTo(QueryPairs, MaxQuery)}

Captured(u, body) == [url |-> u, method |-> "POST", status |-> 200, body |-> body]

InitPage ==
  /\ pc = "merging"
  /\ url \in PageUrls
  /\ api_responses \in {<<>>} \cup {<<Captured(ApiUrl(ProductsPath), body)>> : body \in PageBodies}
  /\ result = Null
  /\ data = Null
  /\ handlers = 1
  /\ ProbeIdle

NextPage == Finish

SpecPage == InitPage /\ [][NextPage]_vars

\* The body of the captured products response, when there is one.
PrimaryBody == api_responses[1].body

\* A primary payload was selected: a products response with a product.
HasPrimary == api_responses # <<>> /\ ProductCountOf(PrimaryBody) > 0

PaginationFieldsPresent == {f \in {"pagination", "pageInfo", "page_info", "paging", "meta"} :
                              f \in DOMAIN PrimaryBody.d}

\* The pagination descriptor of the primary payload (the bodies of SpecPage
\* carry at most one).
Descriptor == PrimaryBody.d[CHOOSE f \in PaginationFieldsPresent : TRUE]

HasDescriptor == HasPrimary /\ PaginationFieldsPresent # {}

\* Key k of the descriptor is present with a true, non-zero, non-empty value.
TruthyKey(k) ==
  /\ k \in DOMAIN Descriptor.d
  /\ Descriptor.d[k] \notin {Null, Bool(FALSE), Num(0), Str(<<>>)}

\* The pairs of query q named "page".
PageParams(q) == SelectSeq(q, LAMBDA pair : pair[1] = "page")

\* The values of parameter name in query q, in order.
ValuesOf(q, name) ==
  LET sel == SelectSeq(q, LAMBDA pair : pair[1] = name)
  IN [i \in 1..Len(sel) |-> sel[i][2]]

\* next_page is the request URL with its page parameter set to n.
NextPageIs(n) ==
  /\ "error" \notin DOMAIN result
  /\ result.next_page # Null
  /\ result.next_page.path = url.path
  /\ PageParams(result.next_page.query) = <<<<"page", NatToStr(n)>>>>

\* The descriptor carries currentPage = c and totalPages = t, numbers, c < t.
PagesBelowTotal ==
  /\ HasDescriptor
  /\ IsDict(Descriptor)
  /\ {"currentPage", "totalPages"} \subseteq DOMAIN Descriptor.d
  /\ Descriptor.d["currentPage"].t = "num"
  /\ Descriptor.d["totalPages"].t = "num"
  /\ Descriptor.d["currentPage"].n < Descriptor.d["totalPages"].n

\* C3 as stated: a descriptor carrying only currentPage = c and totalPages = t
\* with c < t gives the request URL with page = c + 1 as next_page.
C3_PagesOnlyGiveNext ==
  (pc = "done" /\ PagesBelowTotal /\ DOMAIN Descriptor.d = {"currentPage", "totalPages"})
    => NextPageIs(Descriptor.d["currentPage"].n + 1)

\* The has-next flag the code reads: hasNext, or has_next when hasNext is
\* absent; likewise nextPage, or next_page when nextPage is absent.
FlagSet ==
  \/ TruthyKey("hasNext")
  \/ "hasNext" \notin DOMAIN Descriptor.d /\ TruthyKey("has_next")
  \/ TruthyKey("nextPage")
  \/ "nextPage" \notin DOMAIN Descriptor.d /\ TruthyKey("next_page")

\* C3 amended: with currentPage = c < totalPages = t, next_page is the
\* request URL with page = c + 1 when the descriptor also has a truthy
\* has-next flag or next-page value, and null when it has only the two counts.
C3_FlaggedPagesGiveNext ==
  (pc = "done" /\ PagesBelowTotal) =>
    /\ FlagSet => NextPageIs(Descriptor.d["currentPage"].n + 1)
    /\ DOMAIN Descriptor.d = {"currentPage", "totalPages"}
         => "error" \notin DOMAIN result /\ result.next_page = Null

\* A flagged descriptor on page 2 of 3, the request URL already carrying page=2.
C3_Witness ==
  /\ pc = "done"
  /\ PagesBelowTotal
  /\ FlagSet
  /\ Descriptor.d["currentPage"].n = 2
  /\ PageParams(url.query) = <<<<"page", <<"2">>>>>>
  /\ NextPageIs(3)

\* The current page the code compares: currentPage, else current_page, else 1.
CurrentPageOf ==
  IF "currentPage" \in DOMAIN Descriptor.d THEN Descriptor.d["currentPage"]
  ELSE IF "current_page" \in DOMAIN Descriptor.d THEN Descriptor.d["current_page"]
  ELSE Num(1)

TotalPagesOf ==
  IF "totalPages" \in DOMAIN Descriptor.d THEN Descriptor.d["totalPages"]
  ELSE IF "total_pages" \in DOMAIN Descriptor.d THEN Descriptor.d["total_pages"]
  ELSE Null

\* No key among hasNext, has_next, nextPage, next_page has a truthy value.
NoFlag == \A k \in {"hasNext", "has_next", "nextPage", "next_page"} : ~TruthyKey(k)

\* current page >= total pages, both numbers.
AtLastPage ==
  /\ CurrentPageOf.t = "num"
  /\ TotalPagesOf.t = "num"
  /\ CurrentPageOf.n >= TotalPagesOf.n

\* C4: next_page is null, with no error field, when there is no primary
\* payload, no pagination field, no truthy has-next / next-page value, or
\* current page >= total pages; a non-null next_page implies current page <
\* total pages.
C4_NoNextPage ==
  pc = "done" =>
    /\ (\/ ~HasPrimary
        \/ ~HasDescriptor
        \/ ~IsDict(Descriptor)
        \/ NoFlag
        \/ AtLastPage)
         => "error" \notin DOMAIN result /\ result.next_page = Null
    /\ ("error" \notin DOMAIN result /\ result.next_page # Null)
         => /\ HasDescriptor /\ IsDict(Descriptor)
            /\ CurrentPageOf.t = "num" /\ TotalPagesOf.t = "num"
            /\ CurrentPageOf.n < TotalPagesOf.n

\* A flagged descriptor on the last page (3 of 3) resolved to no next page.
C4_Witness ==
  /\ pc = "done"
  /\ HasDescriptor /\ IsDict(Descriptor)
  /\ TruthyKey("hasNext")
  /\ CurrentPageOf = Num(3) /\ TotalPagesOf = Num(3)
  /\ "error" \notin DOMAIN result
  /\ result.next_page = Null

\* C5: a synthesized next-page URL differs from the request URL only in the
\* page parameter: same path, and every other parameter with the same values.
C5_OtherParamsUntouched ==
  (pc = "done" /\ "error" \notin DOMAIN result /\ result.next_page # Null) =>
    /\ result.next_page.path = url.path
    /\ \A i \in 1..Len(url.query) :
         url.query[i][1] # "page"
           => ValuesOf(result.next_page.query, url.query[i][1])
                = ValuesOf(url.query, url.query[i][1])

-----------------------------------------------------------------------------
(* Product extraction (SpecParse): _parse_api_products applied to one JSON *)
(* value of unknown shape.                                                 *)

\* The most elements of a container list.
MaxContainer == 2
\* The most characters of a raw price.
MaxPriceLen == 4

Scalars == {Null, Bool(TRUE), Num(0), Num(7), Str(<<>>), Str(<<"x">>)}

\* Mappings with no container key: name-like, price and barcode fields
\* present or not, with null, empty, blank and padded values.
PlainItems ==
  {Dict(Opt("name", a) @@ Opt("title", b) @@ Opt("price", c) @@ Opt("precio", d)
        @@ Opt("barcode", e)) :
     a \in {Absent, Null, Str(<<>>), Str(<<" ">>), Str(<<"A">>), Str(<<" ", "A">>), Num(7)},
     b \in {Absent, Str(<<"T">>)},
     c \in {Absent, Null, Str(<<"5">>), Num(0)},
     d \in {Absent, Str(<<"6">>)},
     e \in {Absent, Str(<<"1">>)}}

PriceChars == {"Q", "$", ",", ".", "1", "5", "N", "/", "A", " "}

\* Named items whose raw price is any string over PriceChars.
PricedItems ==
  {Dict([name |-> Str(<<"A">>), price |-> Str(s)]) : s \in SeqsUpTo(PriceChars, MaxPriceLen)}

ContainerElements == {ItemB, ItemNameless, ItemScalar}

\* What a container key holds: a list, a nested mapping, a scalar.
ContainerValues ==
  {List(xs) : xs \in SeqsUpTo(ContainerElements, MaxContainer)}
  \cup {Dict([items |-> List(<<ItemA1>>)]), Dict([total |-> Num(1)]), Str(<<"x">>)}

\* Mappings with container keys, with and without a name of their own.
ContainerDicts ==
  {Dict(Opt("products", a) @@ Opt("items", b) @@ Opt("content", c) @@ Opt("name", n)) :
     a \in {Absent} \cup ContainerValues,
     b \in {Absent} \cup ContainerValues,
     c \in {Absent, List(<<ItemA2>>)},
     n \in {Absent, Str(<<"A">>)}}

\* A top-level list of container elements.
TopLevelLists ==
  {List(xs) : xs \in SeqsUpTo(ContainerElements, MaxContainer)}

\* One call of _parse_api_products(data).
Parse ==
  /\ pc = "parsing"
  /\ result' = parse_api_products(data)
  /\ pc' = "done"
  /\ UNCHANGED <<callerVars, handlers, mainVars, last_response, url, api_responses, data, probeVars>>

InitParse ==
  /\ pc = "parsing"
  /\ url = CatalogUrl
  /\ api_responses = <<>>
  /\ result = Null
  /\ \/ data \in Scalars
     \/ data \in PlainItems
     \/ data \in PricedItems
     \/ data \in ContainerDicts
     \/ data \in TopLevelLists
  /\ handlers = 1
  /\ ProbeIdle

NextParse == Parse

SpecParse == InitParse /\ [][NextParse]_vars

ContainerKeys == {"products", "items", "data", "results", "content"}

NameAliases == {"name", "productName", "title", "productTitle", "nombre",
                "descripcion", "description", "productDescription"}

\* data is a mapping with none of the container keys.
NoContainerKey == data.t = "dict" /\ DOMAIN data.d \cap ContainerKeys = {}

\* data is a scalar: no sequence and no mapping.
IsScalar == data.t \notin {"list", "dict"}

\* Alias k of data holds a value that is not null, false, zero or empty.
NamedBy(k) ==
  /\ k \in DOMAIN data.d
  /\ data.d[k] \notin {Null, Bool(FALSE), Num(0), Str(<<>>), List(<<>>), EmptyDict}

\* C6 as stated: a scalar, or a mapping with no container key, gives the
\* empty list, also when the mapping has a name-like field.
C6_NoContainerGivesEmpty ==
  (pc = "done" /\ (IsScalar \/ NoContainerKey)) => result = <<>>

\* C6 amended: a scalar, or a mapping with no container key and no name alias
\* holding a value, gives the empty list; a mapping with no container key
\* whose name field holds a non-blank string gives exactly one Product, the
\* one of the mapping itself.
C6_NoContainerGivesSelf ==
  pc = "done" =>
    /\ (IsScalar \/ (NoContainerKey /\ \A k \in NameAliases : ~NamedBy(k)))
         => result = <<>>
    /\ (NoContainerKey /\ NamedBy("name") /\ data.d["name"].t = "str"
        /\ \E i \in 1..Len(data.d["name"].s) : data.d["name"].s[i] # " ")
         => /\ Len(result) = 1
            /\ result[1].d["raw_data"] = data

\* A mapping with a name and a price and no container key was parsed into one
\* Product; and a mapping with neither name nor container gave nothing.
C6_Witness ==
  /\ pc = "done"
  /\ NoContainerKey
  /\ NamedBy("name")
  /\ "price" \in DOMAIN data.d
  /\ Len(result) = 1
  /\ result[1].d["name"] = Str(<<"A">>)

Digits == {"0", "1", "2", "3", "4", "5", "6", "7", "8", "9"}

\* s matches [0-9]+(\.[0-9]+)? as a whole.
IsNumericString(s) ==
  /\ s # <<>>
  /\ \A i \in 1..Len(s) : s[i] \in Digits \cup {"."}
  /\ Cardinality({i \in 1..Len(s) : s[i] = "."}) <= 1
  /\ s[1] \in Digits
  /\ s[Len(s)] \in Digits

\* data is a named item whose raw price is a string.
PricedInput ==
  /\ data.t = "dict"
  /\ DOMAIN data.d = {"name", "price"}
  /\ data.d["name"] = Str(<<"A">>)
  /\ data.d["price"].t = "str"

\* C7: the price of a Product is null or a numeric string, [0-9]+(\.[0-9]+)?,
\* and it is null when the raw value holds no digit (as in "N/A").
C7_PriceNumericOrNull ==
  (pc = "done" /\ PricedInput) =>
    /\ Len(result) = 1
    /\ \/ result[1].d["price"] = Null
       \/ /\ result[1].d["price"].t = "str"
          /\ IsNumericString(result[1].d["price"].s)
    /\ (\A i \in 1..Len(data.d["price"].s) : data.d["price"].s[i] \notin Digits)
         => result[1].d["price"] = Null

PriceAliases == {"price", "precio", "cost", "costo", "amount", "valor",
                 "unitPrice", "unit_price", "salePrice", "sale_price"}

\* The source item holds no price: no price alias, or only null ones.
NoPrice(item) == \A k \in PriceAliases \cap DOMAIN item.d : item.d[k] = [t |-> "null"]

\* The source item's only price is the number zero.
ZeroPrice(item) ==
  /\ PriceAliases \cap DOMAIN item.d # {}
  /\ \A k \in PriceAliases \cap DOMAIN item.d : item.d[k] = [t |-> "num", n |-> 0]

\* Some name alias of the item holds a value that is not null, false, zero
\* or empty.
HasNameValue(item) ==
  \E k \in NameAliases \cap DOMAIN item.d :
    item.d[k] \notin {Null, Bool(FALSE), Num(0), Str(<<>>), List(<<>>), EmptyDict}

\* C19: every Product has a non-empty name and comes from an item one of
\* whose name aliases yields a value, an item without one produces no
\* Product; a Product whose source has no price has price null, and one
\* whose source price is zero has the price "0", which is not null.
C19_NamedProductsOnly ==
  pc = "done" =>
    /\ \A i \in 1..Len(result) :
         LET product == result[i].d
         IN /\ product["name"].t = "str"
            /\ product["name"].s # <<>>
            /\ product["name"].s[1] # " "
            /\ HasNameValue(product["raw_data"])
            /\ NoPrice(product["raw_data"]) => product["price"] = [t |-> "null"]
            /\ ZeroPrice(product["raw_data"]) => product["price"] = [t |-> "str", s |-> <<"0">>]
    /\ (data.t = "dict" /\ ~HasNameValue(data) /\ DOMAIN data.d \cap ContainerKeys = {}) =>
         result = <<>>
    /\ (data.t = "list" /\ \A j \in 1..Len(data.xs) :
                              data.xs[j].t = "dict" => ~HasNameValue(data.xs[j])) =>
         result = <<>>

\* A mapping with a padded name and the price 0 gave a Product with the
\* stripped name and the price "0".
C19_Witness ==
  /\ pc = "done"
  /\ data.t = "dict"
  /\ "name" \in DOMAIN data.d /\ data.d["name"] = Str(<<" ", "A">>)
  /\ "price" \in DOMAIN data.d /\ data.d["price"] = Num(0)
  /\ Len(result) = 1
  /\ result[1].d["name"] = Str(<<"A">>)
  /\ result[1].d["price"] = Str(<<"0">>)

\* The name aliases in their ranked order.
RankedNameAliases ==
  <<"name", "productName", "title", "productTitle", "nombre", "descripcion",
    "description", "productDescription">>

\* Alias k of the item holds a string that is not empty after trimming.
NonBlankAt(item, k) ==
  /\ k \in DOMAIN item.d
  /\ item.d[k].t = "str"
  /\ \E i \in 1..Len(item.d[k].s) : item.d[k].s[i] # " "

\* A string that is not blank, without its leading and trailing spaces.
Trimmed(s) ==
  LET filled == {i \in 1..Len(s) : s[i] # " "}
  IN SubSeq(s, CHOOSE i \in filled : \A j \in filled : i <= j,
               CHOOSE i \in filled : \A j \in filled : i >= j)

\* data is one item (a mapping with no container key) whose name aliases
\* hold strings or null.
StringNamed ==
  /\ NoContainerKey
  /\ \A k \in NameAliases \cap DOMAIN data.d : data.d[k].t \in {"str", "null"}

\* The ranks of the name aliases of data that hold a non-blank string.
NonBlankRanks == {i \in 1..Len(RankedNameAliases) : NonBlankAt(data, RankedNameAliases[i])}

\* C23: the Product's name is the trimmed value of the first alias, in the
\* ranked order, whose value is present and non-empty after trimming; an
\* earlier alias whose value is empty, null or whitespace-only does not
\* prevent a later alias from supplying the name.
C23_FirstNonBlankAliasNames ==
  (pc = "done" /\ StringNamed /\ NonBlankRanks # {}) =>
    /\ Len(result) = 1
    /\ result[1].d["name"] =
         [t |-> "str", s |-> Trimmed(data.d[RankedNameAliases[Least(NonBlankRanks)]].s)]

\* The price aliases in their ranked order.
RankedPriceAliases ==
  <<"price", "precio", "cost", "costo", "amount", "valor", "unitPrice",
    "unit_price", "salePrice", "sale_price">>

\* The ranks of the price aliases of an item that hold a non-null value.
PricedRanks(item) ==
  {i \in 1..Len(RankedPriceAliases) :
     /\ RankedPriceAliases[i] \in DOMAIN item.d
     /\ item.d[RankedPriceAliases[i]] # [t |-> "null"]}

\* The value is a string of digits.
IsDigits(v) ==
  /\ v.t = "str"
  /\ v.s # <<>>
  /\ \A i \in 1..Len(v.s) : v.s[i] \in Digits

\* C24: the price of a Product is taken from the first of the ranked price
\* aliases that is present with a non-null value: an earlier alias that is
\* present with null does not stop the search, so a Product whose source has
\* a later alias with a value has a price, the digits of that value when the
\* value is a string of digits; and a Product whose source has no non-null
\* alias has price null.
C24_FirstNonNullPriceAlias ==
  pc = "done" =>
    \A j \in 1..Len(result) :
      LET item == result[j].d["raw_data"]
          price == result[j].d["price"]
      IN IF PricedRanks(item) = {} THEN price = [t |-> "null"]
         ELSE LET price_value == item.d[RankedPriceAliases[Least(PricedRanks(item))]]
              IN /\ price # [t |-> "null"]
                 /\ IsDigits(price_value) => price = price_value

\* The container keys in their ranked order.
RankedContainerKeys == <<"products", "items", "data", "results", "content">>

\* The ranks of the container keys that data holds with a sequence value.
SequenceRanks ==
  {i \in 1..Len(RankedContainerKeys) :
     /\ RankedContainerKeys[i] \in DOMAIN data.d
     /\ data.d[RankedContainerKeys[i]].t = "list"}

\* No container key of data holds a mapping.
NoNestedContainer ==
  \A k \in ContainerKeys \cap DOMAIN data.d : data.d[k].t # "dict"

\* C25: for a mapping, the candidate items come only from the first key, in
\* the order products, items, data, results, content, that is present with a
\* sequence value: no Product comes from a later container key once an
\* earlier key held a sequence, also when that sequence is empty or yields no
\* Product (the mapping itself may then still be the one item).
C25_FirstSequenceOnly ==
  (pc = "done" /\ data.t = "dict" /\ NoNestedContainer /\ SequenceRanks # {}) =>
    LET candidates == data.d[RankedContainerKeys[Least(SequenceRanks)]].xs
    IN \A j \in 1..Len(result) :
         \/ \E i \in 1..Len(candidates) : result[j].d["raw_data"] = candidates[i]
         \/ result[j].d["raw_data"] = data

-----------------------------------------------------------------------------
(* The probe block of ApiScraper.scrape (SpecProbe): the primary capture,  *)
(* the cache read, the five candidate requests and the cache write.        *)

\* The most products a probe response holds.
MaxCount == 2

\* if products_count <= 5 or force_all
ProbeThreshold == 5

\* len(v) of a value that has a length.
PyLen(v) ==
  CASE v.t = "list" -> Len(v.xs)
    [] v.t = "str" -> Len(v.s)
    [] v.t = "dict" -> Cardinality(DOMAIN v.d)

\* len(body.get("products", [])) raises: body has no get, or the value has
\* no length.
ProductsLenRaises(body) ==
  \/ ~IsDict(body)
  \/ HasKey(body, "products") /\ body.d["products"].t \notin {"list", "str", "dict"}

\* len(body.get("products", []))
ProductsLen(body) == IF HasKey(body, "products") THEN PyLen(body.d["products"]) ELSE 0

DigitValue(c) == CHOOSE n \in 0..9 : DigitChar(n) = c

RECURSIVE StrToNatFrom(_, _)
StrToNatFrom(s, acc) ==
  IF s = <<>> THEN acc ELSE StrToNatFrom(Tail(s), 10 * acc + DigitValue(Head(s)))

\* int(s) for a path segment: the number, or Null when int raises.
PyInt(s) ==
  IF s # <<>> /\ \A i \in 1..Len(s) : s[i] \in NumericChars \ {"."}
  THEN Num(StrToNatFrom(s, 0)) ELSE Null

\* The id after the first 'catalog' segment of the path, or None.
SubcategoryId(u) ==
  LET at == {i \in 1..Len(u.path) : u.path[i] = <<"c", "a", "t", "a", "l", "o", "g">>}
  IN IF at = {} THEN Null
     ELSE LET catalog_idx == CHOOSE i \in at : \A j \in at : i <= j
          IN IF catalog_idx + 1 <= Len(u.path) THEN PyInt(u.path[catalog_idx + 1])
             ELSE Null

\* query_params.get(name, [default])[0]
QueryFirst(u, name, default) ==
  LET params == parse_qs(u.query)
      at == {i \in 1..Len(params) : params[i][1] = name}
  IN IF at = {} THEN default ELSE params[CHOOSE i \in at : TRUE][2][1]

\* float(s) does not raise, for a text of digits and dots.
IsFloat(s) ==
  /\ \E i \in 1..Len(s) : s[i] \in NumericChars \ {"."}
  /\ \A i \in 1..Len(s) : s[i] \in NumericChars
  /\ Cardinality({i \in 1..Len(s) : s[i] = "."}) <= 1

\* The five candidates in their fixed order.
TestConfigs(subcategory_id) ==
  <<Dict([type |-> Num(0), subcategoryId |-> subcategory_id]),
    Dict([type |-> Num(1), subcategoryId |-> subcategory_id]),
    Dict([subcategoryId |-> subcategory_id]),
    Dict([type |-> Num(0)]),
    EmptyDict>>

\* test_configs after "if best_config and best_config in test_configs":
\* the cached config is removed and inserted at the front.
OrderConfigs(configs, cached) ==
  LET at == {i \in 1..Len(configs) : configs[i] = cached}
  IN IF Truthy(cached) /\ at # {}
     THEN LET k == CHOOSE i \in at : \A j \in at : i <= j
          IN <<cached>> \o SubSeq(configs, 1, k - 1) \o SubSeq(configs, k + 1, Len(configs))
     ELSE configs

\* The cache file with JSON text v (JsonRaises: text that is no JSON).
File(v) == [t |-> "file", json |-> v]

\* The cache read taking a file without best_config as the config itself.
LoadCacheWholeFile(s, file) ==
  IF s.api_cache_config /\ file # NoFile /\ file.json # JsonRaises /\ IsDict(file.json)
  THEN IF HasKey(file.json, "best_config") THEN file.json.d["best_config"] ELSE file.json
  ELSE Null

\* best_config as the cache read leaves it.
LoadCache(s, file) ==
  IF s.api_cache_config /\ file # NoFile /\ file.json # JsonRaises
     /\ IsDict(file.json) /\ HasKey(file.json, "best_config")
  THEN file.json.d["best_config"]
  ELSE Null

\* The i-th product of a probe response.
ProbeItem(i) == Dict([name |-> Str(<<"P">>), barcode |-> Str(NatToStr(i))])

\* A products payload with n products.
ProbeBody(n) == Dict([products |-> List([i \in 1..n |-> ProbeItem(i)])])

PrimaryCounts == 0..MaxCount \cup {ProbeThreshold + 1}

\* A products payload with an item that is no mapping: a merge over it
\* raises.
BadItemBody == Dict([products |-> List(<<ItemScalar>>)])

\* A products payload whose pagination descriptor holds a page number as
\* text: the page comparison raises.
BadPageBody ==
  Dict([products |-> List(<<ProbeItem(1)>>),
        pagination |-> Dict([hasNext |-> Bool(TRUE), currentPage |-> Str(<<"1">>),
                             totalPages |-> Num(2)])])

PrimaryResponses ==
  {Captured(ApiUrl(ProductsPath), ProbeBody(n)) : n \in PrimaryCounts}
  \cup {Captured(ApiUrl(ProductsPath), List(<<ProbeItem(1)>>)),
        Captured(ApiUrl(SubcategoryPath), Dict([items |-> List(<<ProbeItem(1)>>)])),
        Captured(ApiUrl(ProductsPath), BadItemBody),
        Captured(ApiUrl(ProductsPath), BadPageBody)}

\* What a direct request gives: an exception, a status, a body.
RequestRaises == [raises |-> TRUE, status |-> 0, json |-> Null]

ProbeOutcomes ==
  {RequestRaises,
   [raises |-> FALSE, status |-> 500, json |-> ProbeBody(1)],
   [raises |-> FALSE, status |-> 200, json |-> JsonRaises],
   [raises |-> FALSE, status |-> 200, json |-> List(<<ProbeItem(1)>>)]}
  \cup {[raises |-> FALSE, status |-> 200, json |-> ProbeBody(n)] : n \in 1..MaxCount}

ProbeUrls ==
  {CatalogUrl,
   [path |-> <<<<"o", "f", "e", "r", "t", "a", "s">>>>, query |-> <<>>],
   [path |-> CatalogUrl.path, query |-> <<<<"minPrice", <<"A">>>>>>]}

\* A cache file an earlier run wrote.
CachedFile == File(Dict([best_config |-> Dict([type |-> Num(1), subcategoryId |-> Num(9)]),
                         last_updated |-> Num(0)]))

\* A cache file that is JSON without a best_config.
NoBestFile == File(Dict([last_updated |-> Num(0)]))

CacheFiles ==
  {NoFile,
   CachedFile,
   NoBestFile,
   File(Dict([best_config |-> EmptyDict, last_updated |-> Num(0)])),
   File(JsonRaises)}

\* The request URL, the settings and the cache file a scrape call starts
\* with: the catalog URL under every setting, the other URLs under the
\* default settings.
ProbeEnvironments ==
  {[url |-> CatalogUrl,
    settings |-> [api_force_all_products |-> f, api_cache_config |-> TRUE],
    cache_file |-> c] : f \in BOOLEAN, c \in CacheFiles}
  \cup {[url |-> CatalogUrl,
         settings |-> [api_force_all_products |-> f, api_cache_config |-> FALSE],
         cache_file |-> c] : f \in BOOLEAN, c \in {NoFile, CachedFile}}
  \cup {[url |-> u, settings |-> DefaultSettings, cache_file |-> NoFile] :
          u \in ProbeUrls}

\* The primary response awaited during navigation: read and appended.
AwaitPrimary ==
  /\ pc = "navigating"
  /\ \E captured_response \in PrimaryResponses :
       api_responses' = Append(api_responses, captured_response)
  /\ pc' = "captured"
  /\ UNCHANGED <<callerVars, handlers, mainVars, last_response, url, result, data, probeVars>>

\* Navigation or the wait for the primary response raises.
NavigationFails ==
  /\ pc = "navigating"
  /\ result' = ErrorResult(url)
  /\ pc' = "done"
  /\ UNCHANGED <<callerVars, handlers, mainVars, last_response, url, api_responses, data, probeVars>>

\* The probe decision with the threshold and the override ignored.
ShouldProbeAlways(count, s) == TRUE

\* if products_count <= 5 or force_all
ShouldProbe(count, s) == count <= ProbeThreshold \/ s.api_force_all_products

\* The probe block's head: the primary count, the cache read, the decision to
\* probe, the candidates and the loop's initial maximum.
BeginProbe ==
  /\ pc = "captured"
  /\ LET body == api_responses[Len(api_responses)].body
     IN IF ProductsLenRaises(body)
        THEN /\ result' = ErrorResult(url)
             /\ pc' = "done"
             /\ UNCHANGED <<products_count, best_config, test_configs, probe_i,
                            max_products_found, best_config_found>>
        ELSE /\ products_count' = ProductsLen(body)
             /\ best_config' = LoadCache(settings, cache_file)
             /\ IF ShouldProbe(ProductsLen(body), settings)
                THEN /\ test_configs' = OrderConfigs(TestConfigs(SubcategoryId(url)),
                                                     LoadCache(settings, cache_file))
                     /\ probe_i' = 1
                     /\ best_config_found' = Null
                     /\ max_products_found' = ProductsLen(body)
                     /\ pc' = "probing"
                ELSE /\ pc' = "merging"
                     /\ UNCHANGED <<test_configs, probe_i, best_config_found,
                                    max_products_found>>
             /\ UNCHANGED result
  /\ UNCHANGED <<callerVars, handlers, mainVars, last_response, url, api_responses, data, settings, cache_file, cache_write, probe_log,
                 api_response>>

\* The status test left out of the success test.
ProbeOkAnyStatus(outcome) ==
  /\ ~outcome.raises
  /\ outcome.json # JsonRaises
  /\ ~ProductsLenRaises(outcome.json)

\* The probe succeeded: status 200 and a body whose products can be counted.
ProbeOk(outcome) ==
  /\ ~outcome.raises
  /\ outcome.status = 200
  /\ outcome.json # JsonRaises
  /\ ~ProductsLenRaises(outcome.json)

\* The append test with a tie counted as more.
ExceedsPrimaryOrEqual(count, primary) == count >= primary

\* len(products) > products_count
ExceedsPrimary(count, primary) == count > primary

\* The best test with a tie counted as a new best.
IsNewBestOrEqual(count, maximum) == count >= maximum

\* len(products) > max_products_found
IsNewBest(count, maximum) == count > maximum

\* One iteration of the probe loop.  float(min_price) or float(max_price)
\* raising ends the iteration before the request is made.
Probe ==
  /\ pc = "probing"
  /\ probe_i <= Len(test_configs)
  /\ LET config == test_configs[probe_i]
         min_price == QueryFirst(url, "minPrice", <<"0">>)
         max_price == QueryFirst(url, "maxPrice", <<"9", "9", "9", "9">>)
     IN \E outcome \in IF IsFloat(min_price) /\ IsFloat(max_price)
                       THEN ProbeOutcomes ELSE {RequestRaises} :
          /\ api_response' = outcome
          /\ IF ProbeOk(outcome)
             THEN LET count == ProductsLen(outcome.json)
                  IN /\ IF IsNewBest(count, max_products_found)
                        THEN /\ max_products_found' = count
                             /\ best_config_found' = config
                        ELSE UNCHANGED <<max_products_found, best_config_found>>
                     /\ IF ExceedsPrimary(count, products_count)
                        THEN api_responses' =
                               Append(api_responses,
                                      Captured(ApiUrl(ProductsPath), outcome.json))
                        ELSE UNCHANGED api_responses
                     /\ probe_log' = Append(probe_log,
                                            [config |-> config, ok |-> TRUE, count |-> count])
             ELSE /\ UNCHANGED <<max_products_found, best_config_found, api_responses>>
                  /\ probe_log' = Append(probe_log,
                                         [config |-> config, ok |-> FALSE, count |-> 0])
  /\ probe_i' = probe_i + 1
  /\ UNCHANGED <<callerVars, handlers, mainVars, last_response, pc, url, result, data, settings, cache_file, cache_write,
                 products_count, best_config, test_configs>>

\* if best_config_found and settings.api_cache_config
ShouldCache(found, s) == Truthy(found) /\ s.api_cache_config

\* The end of the probe block: the best candidate is written to the cache
\* file; a failing write is logged and leaves the file as it was or cut short.
WriteCache ==
  /\ pc = "probing"
  /\ probe_i > Len(test_configs)
  /\ IF ShouldCache(best_config_found, settings)
     THEN \/ /\ cache_file' = File(Dict([best_config |-> best_config_found,
                                         last_updated |-> Num(1)]))
             /\ cache_write' = "ok"
          \/ /\ cache_file' \in {cache_file, File(JsonRaises)}
             /\ cache_write' = "failed"
     ELSE UNCHANGED <<cache_file, cache_write>>
  /\ pc' = "merging"
  /\ UNCHANGED <<callerVars, handlers, mainVars, last_response, url, api_responses, result, data, settings, products_count,
                 best_config, test_configs, probe_i, max_products_found,
                 best_config_found, probe_log, api_response>>

InitProbe ==
  /\ pc = "navigating"
  /\ \E env \in ProbeEnvironments :
       /\ url = env.url
       /\ settings = env.settings
       /\ cache_file = env.cache_file
  /\ api_responses = <<>>
  /\ result = Null
  /\ data = Null
  /\ handlers = 1
  /\ MainIdle
  /\ cache_write = "none"
  /\ products_count = 0
  /\ best_config = Null
  /\ test_configs = <<>>
  /\ probe_i = 0
  /\ max_products_found = 0
  /\ best_config_found = Null
  /\ probe_log = <<>>
  /\ api_response = Null

NextProbe ==
  \/ AwaitPrimary \/ NoPrimary \/ NavigationFails
  \/ BeginProbe \/ Probe \/ WriteCache \/ Finish

SpecProbe == InitProbe /\ [][NextProbe]_vars

\* The probe block was entered and its candidates were built.
Probing == pc \in {"probing", "merging", "done"} /\ test_configs # <<>>

\* The probes made so far that returned status 200 with more products than
\* the primary capture.
Exceeding == {i \in 1..Len(probe_log) :
                probe_log[i].ok /\ probe_log[i].count > products_count}

\* The largest count among the primary capture and the successful probes.
LargestCount ==
  CHOOSE n \in {products_count} \cup {probe_log[i].count : i \in 1..Len(probe_log)} :
    /\ n >= products_count
    /\ \A i \in 1..Len(probe_log) : probe_log[i].ok => n >= probe_log[i].count
    /\ n = products_count \/ \E i \in 1..Len(probe_log) : probe_log[i].ok /\ probe_log[i].count = n

\* The state part of C9: the maximum is the largest count seen and at least
\* the primary count; the best is the earliest candidate that reached it; with
\* no probe above the primary count there is no best and no cache write.
BestTracked ==
  Probing =>
    /\ max_products_found >= products_count
    /\ max_products_found = LargestCount
    /\ IF Exceeding = {}
       THEN best_config_found = Null /\ cache_write = "none"
       ELSE best_config_found =
              probe_log[Least({i \in Exceeding :
                                 probe_log[i].count = max_products_found})].config

\* The step part of C9: a probe never lowers the maximum, and it records its
\* candidate as best exactly when it returned 200 with a count above the
\* maximum seen so far.
BestStep ==
  (pc = "probing" /\ probe_i' = probe_i + 1) =>
    LET probe == probe_log'[Len(probe_log')]
    IN /\ max_products_found' >= max_products_found
       /\ IF probe.ok /\ probe.count > max_products_found
          THEN max_products_found' = probe.count /\ best_config_found' = probe.config
          ELSE UNCHANGED <<max_products_found, best_config_found>>

\* C9: best tracking of the probe loop: the running maximum never decreases
\* and is at least the primary count, a candidate becomes best exactly when it
\* strictly exceeds the maximum so far, the final best is the earliest
\* candidate reaching the overall maximum, and without a probe above the
\* primary count no best is recorded and the cache file is not written.
C9_BestTracking == []BestTracked /\ [][BestStep]_vars

\* The loop ended with two candidates at the overall maximum, the earlier one
\* recorded as best and written to the cache.
C9_Witness ==
  /\ pc = "merging"
  /\ Probing
  /\ \E i, j \in Exceeding :
       /\ i < j
       /\ probe_log[i].count = max_products_found
       /\ probe_log[j].count = max_products_found
       /\ best_config_found = probe_log[i].config
  /\ cache_write = "ok"

\* C10: after the probe loop, when some candidate exceeded the running
\* maximum and caching is enabled, the cache file was written, and a write
\* that did not fail left the best candidate and a timestamp in it; also when
\* the best is the no-filter candidate {}.
C10_BestCached ==
  (pc \in {"merging", "done"} /\ Probing /\ Exceeding # {} /\ settings.api_cache_config) =>
    /\ cache_write # "none"
    /\ cache_write = "ok" =>
         cache_file = File(Dict([best_config |->
                                   probe_log[Least({i \in Exceeding :
                                      probe_log[i].count = max_products_found})].config,
                                 last_updated |-> Num(1)]))

\* The five candidates of this call in their fixed order.
FixedConfigs == TestConfigs(SubcategoryId(url))

\* The sequence xs without its k-th element.
Without(xs, k) == SubSeq(xs, 1, k - 1) \o SubSeq(xs, k + 1, Len(xs))

\* The positions of the fixed order that hold the cached best config.
CachedAt == {i \in 1..Len(FixedConfigs) : FixedConfigs[i] = best_config}

\* C11: the candidates tried are a permutation of the five fixed candidates;
\* a cached best config that equals one of the five, the empty no-filter
\* config {} included, is tried first and the other four keep their relative
\* order; otherwise the fixed order is used unchanged.
C11_CachedTriedFirst ==
  Probing =>
    /\ Len(test_configs) = Len(FixedConfigs)
    /\ \A c \in {FixedConfigs[i] : i \in 1..Len(FixedConfigs)} :
         Cardinality({i \in 1..Len(test_configs) : test_configs[i] = c}) = 1
    /\ \A i \in 1..Len(probe_log) : probe_log[i].config = test_configs[i]
    /\ IF CachedAt # {}
       THEN /\ test_configs[1] = best_config
            /\ Tail(test_configs) = Without(FixedConfigs, Least(CachedAt))
       ELSE test_configs = FixedConfigs

\* Under SpecProbe the buffer starts with the primary response when one was
\* captured.
PrimaryCaptured == api_responses # <<>>

\* The primary capture holds a products list that can be counted, of more
\* than n products.
PrimaryAbove(n) ==
  /\ PrimaryCaptured
  /\ ~ProductsLenRaises(api_responses[1].body)
  /\ ProductsLen(api_responses[1].body) > n

\* The primary capture holds a products list of at most n products.
PrimaryAtMost(n) ==
  /\ PrimaryCaptured
  /\ ~ProductsLenRaises(api_responses[1].body)
  /\ ProductsLen(api_responses[1].body) <= n

\* C12: probe requests are issued only after a primary response was captured
\* with at most 5 products or with the force-all flag set; with more than 5
\* products and force-all off, or with no primary response, no probe request
\* is issued and the cache file is not written.
C12_ProbeOnlyWhenFewOrForced ==
  /\ probe_log # <<>> =>
       /\ PrimaryCaptured
       /\ PrimaryAtMost(5) \/ settings.api_force_all_products
  /\ (~PrimaryCaptured \/ (PrimaryAbove(5) /\ ~settings.api_force_all_products)) =>
       /\ probe_log = <<>>
       /\ cache_write = "none"
       /\ pc \notin {"probing"}

\* A call that captured 6 products with force-all off ended without a probe.
C12_Witness ==
  /\ pc = "done"
  /\ PrimaryAbove(5)
  /\ ~settings.api_force_all_products
  /\ probe_log = <<>>
  /\ cache_write = "none"
  /\ "error" \notin DOMAIN result

\* A direct request that failed: an exception, a status other than 200, a
\* body that is no JSON or no mapping.
FailedRequest(r) ==
  \/ r.raises
  \/ r.status # 200
  \/ r.json = JsonRaises
  \/ ~IsDict(r.json)

\* A step of the probe loop.
ProbeStep == pc = "probing" /\ probe_i' = probe_i + 1

\* The step part of C13: a failing probe leaves the buffer, the maximum and
\* the best as they were and the loop goes on to the next candidate.
FailedProbeSkipped ==
  (ProbeStep /\ FailedRequest(api_response')) =>
    /\ UNCHANGED <<api_responses, max_products_found, best_config_found>>
    /\ pc' = "probing"
    /\ result' = result
    /\ ~probe_log'[Len(probe_log')].ok

\* The state part of C13: after the loop every candidate was attempted, and
\* when all of them failed the call returns what the primary capture alone
\* gives.
AllCandidatesTried ==
  (Probing /\ pc \in {"merging", "done"}) =>
    /\ Len(probe_log) = 5
    /\ \A i \in 1..5 : probe_log[i].config = test_configs[i]
    /\ (pc = "done" /\ \A i \in 1..5 : ~probe_log[i].ok) =>
         /\ api_responses = <<api_responses[1]>>
         /\ result = PageResult(url, <<api_responses[1]>>)

\* C13: a failing probe (exception, non-200 status, unparsable or
\* non-mapping body) changes neither the capture buffer nor the best/max
\* tracking, all five candidates are attempted whichever of them fail, and
\* the call does not end in an error result because of a probe failure: a
\* failing probe leaves the call in the loop, and with every probe failed the
\* result is the one of the primary capture alone.
C13_FailedProbeSkipped == []AllCandidatesTried /\ [][FailedProbeSkipped]_vars

\* A call whose first probe answered 500 and whose last probe succeeded
\* returned a result without error.
C13_Witness ==
  /\ pc = "done"
  /\ Probing
  /\ ~probe_log[1].ok
  /\ probe_log[5].ok
  /\ api_response.status = 200
  /\ Len(api_responses) = 2
  /\ "error" \notin DOMAIN result
  /\ result.product_count = 2

\* The product count of a direct request's answer exceeds that of the
\* primary capture, the first entry of the buffer.
AbovePrimary(r) ==
  /\ ~FailedRequest(r)
  /\ ~ProductsLenRaises(r.json)
  /\ ProductsLen(r.json) > ProductsLen(api_responses[1].body)

\* C14: a probe payload is appended to the capture buffer if and only if the
\* probe returned status 200 with more products than the primary capture,
\* whether or not it also exceeds the running maximum.
C14_AppendedIffAbovePrimary ==
  [][ProbeStep =>
       IF AbovePrimary(api_response')
       THEN api_responses' =
              Append(api_responses,
                     [url |-> ApiUrl(ProductsPath), method |-> "POST", status |-> 200,
                      body |-> api_response'.json])
       ELSE api_responses' = api_responses]_vars

\* A probe with more products than the primary capture but fewer than the
\* running maximum had its payload appended.
C14_Witness ==
  /\ Probing
  /\ Len(api_responses) = 3
  /\ api_response.status = 200 /\ api_response.json = api_responses[3].body
  /\ ProductsLen(api_responses[1].body) < ProductsLen(api_responses[3].body)
  /\ ProductsLen(api_responses[3].body) < ProductsLen(api_responses[2].body)
  /\ max_products_found = ProductsLen(api_responses[2].body)

\* C16: scrape never raises to its caller: the call stands at a point from
\* which a step leads on until it returns, the returned result has url, products and
\* product_count, and a failed call (navigation, the probe head, the merge,
\* the pagination) returns an error message with an empty products list and
\* product_count 0.
C16_AlwaysReturnsResult ==
  /\ pc \in {"navigating", "captured", "probing", "merging", "done"}
  /\ pc = "probing" => probe_i \in 1..(Len(test_configs) + 1)
  /\ pc # "done" => result = Null
  /\ pc = "done" =>
       /\ {"url", "products", "product_count"} \subseteq DOMAIN result
       /\ result.url = url
       /\ result.product_count = Len(result.products)
       /\ "error" \in DOMAIN result =>
            result.products = <<>> /\ result.product_count = 0
       /\ "error" \notin DOMAIN result => result = PageResult(url, api_responses)
       /\ (PrimaryCaptured /\ ProductsLenRaises(api_responses[1].body)) =>
            "error" \in DOMAIN result
       /\ (Len(AllProductsLists(api_responses)) > 1
           /\ \E i \in 1..Len(api_responses) : api_responses[i].body = BadItemBody) =>
            "error" \in DOMAIN result
       /\ (Len(api_responses) = 1 /\ api_responses[1].body = BadPageBody) =>
            "error" \in DOMAIN result

\* A call that probed, captured a second products list and failed in the
\* merge returned the error result.
C16_Witness ==
  /\ pc = "done"
  /\ Probing
  /\ Len(api_responses) > 1
  /\ api_responses[1].body = BadItemBody
  /\ "error" \in DOMAIN result
  /\ result.products = <<>>
  /\ result.product_count = 0

\* A cache file that gives no best config: missing, unreadable or no JSON,
\* or without best_config.
CacheMiss(file) ==
  \/ file = [t |-> "nofile"]
  \/ file.json = [t |-> "raises"]
  \/ file.json.t # "dict"
  \/ "best_config" \notin DOMAIN file.json.d

\* The primary capture is a payload the tail of scrape handles without error.
PlainPrimary ==
  /\ PrimaryCaptured
  /\ api_responses[1].body \notin {BadItemBody, BadPageBody}

\* The state part of C18.  Until the cache write the file is the one the call
\* started with: a miss gives no cached best config and the fixed candidate
\* order, and the call returns the result of its buffer, without error.  The
\* same holds of the result after a cache write that failed.
CacheMissIgnored ==
  /\ (Probing /\ cache_write = "none" /\ CacheMiss(cache_file)) =>
       /\ best_config = Null
       /\ test_configs = FixedConfigs
       /\ pc = "done" =>
            /\ result = PageResult(url, api_responses)
            /\ PlainPrimary => "error" \notin DOMAIN result
  /\ (pc = "done" /\ cache_write = "failed") =>
       /\ result = PageResult(url, api_responses)
       /\ PlainPrimary => "error" \notin DOMAIN result

\* The step part of C18: a cache write that fails leads on to the merge and
\* changes neither the buffer nor the result.
CacheWriteFailureIgnored ==
  (pc = "probing" /\ cache_write' = "failed") =>
    /\ pc' = "merging"
    /\ UNCHANGED <<api_responses, result, best_config_found, max_products_found>>

\* C18: cache I/O failure is a cache miss: with the cache file missing,
\* unreadable, no JSON or without best_config the call probes in the fixed
\* order with no cached best config and returns a non-error result; a failing
\* cache write neither makes the result an error nor changes its products.
C18_CacheFailureIsMiss == []CacheMissIgnored /\ [][CacheWriteFailureIgnored]_vars

\* A call that found the cache file unreadable and then failed to write it
\* returned the products of its probes.
C18_Witness ==
  /\ pc = "done"
  /\ Probing
  /\ cache_file = File(JsonRaises)
  /\ cache_write = "failed"
  /\ test_configs = FixedConfigs
  /\ "error" \notin DOMAIN result
  /\ result.product_count > 0

\* The products list of a captured body, empty when the body holds none.
CapturedList(body) ==
  IF body.t = "dict" /\ "products" \in DOMAIN body.d /\ body.d["products"].t = "list"
  THEN body.d["products"].xs
  ELSE <<>>

\* The capture is malformed: a captured body is no mapping, or a captured
\* products list holds an element that is no mapping.
MalformedCapture ==
  \E i \in 1..Len(api_responses) :
    \/ api_responses[i].body.t # "dict"
    \/ \E j \in 1..Len(CapturedList(api_responses[i].body)) :
         CapturedList(api_responses[i].body)[j].t # "dict"

\* The well-formed named items of the captured lists: mappings whose name is
\* a non-blank string.
WellFormedItems ==
  {item \in UNION {{CapturedList(api_responses[i].body)[j] :
                      j \in 1..Len(CapturedList(api_responses[i].body))} :
                   i \in 1..Len(api_responses)} :
     /\ item.t = "dict"
     /\ "name" \in DOMAIN item.d
     /\ item.d["name"].t = "str"
     /\ \E k \in 1..Len(item.d["name"].s) : item.d["name"].s[k] # " "}

\* C29: a malformed item affects only itself: when a captured products list
\* holds an element that is no mapping, or the primary body is no mapping,
\* scrape returns a result without an error field that holds a Product for
\* every well-formed named item of the captured lists, on the single-list
\* path and on the merge path.
C29_MalformedItemIsolated ==
  (pc = "done" /\ MalformedCapture) =>
    /\ "error" \notin DOMAIN result
    /\ \A item \in WellFormedItems :
         \E j \in 1..Len(result.products) : result.products[j].d["raw_data"] = item

-----------------------------------------------------------------------------
(* The selection of the primary payload (SpecSelect): the tail of          *)
(* ApiScraper.scrape over capture buffers of several responses whose       *)
(* bodies carry a key that tells them apart.                               *)

\* The most products of a captured body, and the most captured responses.
MaxSelect == 2
MaxBuffer == 3

\* A products payload of n products with a distinguishing total field.
SelectBody(n, k) ==
  Dict([products |-> List([i \in 1..n |-> ProbeItem(i)]), total |-> Num(k)])

SelectResponses ==
  {Captured(ApiUrl(ProductsPath), SelectBody(n, k)) : n \in 0..MaxSelect, k \in 1..2}
  \cup {Captured(ApiUrl(ProductsPath), body) :
          body \in {List(<<ProbeItem(1), ProbeItem(2)>>), EmptyDict,
                    Dict([products |-> Str(<<"a", "b", "c">>), total |-> Num(3)])}}
  \cup {Captured(ApiUrl(SubcategoryPath), body) :
          body \in {SelectBody(MaxSelect, 4), Dict([items |-> List(<<ProbeItem(1)>>)])}}
  \cup {Captured(ApiUrl("/api/other"), SelectBody(MaxSelect, 5))}

InitSelect ==
  /\ pc = "merging"
  /\ url = CatalogUrl
  /\ api_responses \in SeqsUpTo(SelectResponses, MaxBuffer)
  /\ result = Null
  /\ data = Null
  /\ handlers = 1
  /\ ProbeIdle

NextSelect == Finish

SpecSelect == InitSelect /\ [][NextSelect]_vars

\* The positions of the buffer that hold a response of the products endpoint.
ProductsAt == {i \in 1..Len(api_responses) : api_responses[i].url.path = "/api/products"}

\* The length of the products list of the i-th captured body, 0 without one.
ListLength(i) ==
  LET body == api_responses[i].body
  IN IF body.t = "dict" /\ "products" \in DOMAIN body.d /\ body.d["products"].t = "list"
     THEN Len(body.d["products"].xs) ELSE 0

\* The positions of the products responses with the longest products list.
LongestAt == {i \in ProductsAt : \A j \in ProductsAt : ListLength(i) >= ListLength(j)}

\* The products payload the result reports is the body b, its products list
\* replaced by the merged list when a merge ran.
ReportsBody(b) ==
  LET chosen == result.raw_data.products
  IN /\ chosen.t = "dict"
     /\ DOMAIN chosen.d = DOMAIN b.d
     /\ \A k \in DOMAIN b.d \ {"products"} : chosen.d[k] = b.d[k]
     /\ Len(AllProductsLists(api_responses)) <= 1 => chosen = b

-----------------------------------------------------------------------------
(* The browser resources over the scraper's lifetime (SpecBrowser):        *)
(* ApiScraper() starts them, scrape_multiple_urls uses the scraper in a    *)
(* with block over its URLs, __exit__ closes them.                         *)

\* The most URLs of a run, and the most products one URL adds.
MaxUrls == 3
MaxFound == 2

NotStarted == [r \in DOMAIN Started |-> "none"]

\* The resources with those at the positions in S of an order set to state v.
SetStates(resources, order, S, v) ==
  [r \in DOMAIN resources |->
     IF \E i \in S : order[i] = r THEN v ELSE resources[r]]

\* _start_browser: the resources are started in order; when starting the
\* (k+1)-th raises, the first k stay started and the exception is raised again.
StartBrowser ==
  /\ pc = "constructing"
  /\ \E k \in 0..4 :
       /\ scraper' = SetStates(scraper, Resources, 1..k, "open")
       /\ pc' = IF k = 4 THEN "entered" ELSE "raised"
  /\ UNCHANGED <<callerVars, handlers, url, api_responses, last_response, result, data, probeVars, url_i,
                 all_products>>

\* One URL of the loop of scrape_multiple_urls: its products are added.
ScrapeUrl ==
  /\ pc = "entered"
  /\ url_i < MaxUrls
  /\ \E found \in 0..MaxFound : all_products' = all_products + found
  /\ url_i' = url_i + 1
  /\ UNCHANGED <<callerVars, handlers, pc, url, api_responses, last_response, result, data, probeVars, scraper>>

\* The with block ends, after its last URL or by an exception.
LeaveBlock ==
  /\ pc = "entered"
  /\ pc' \in {"exiting", "exiting by exception"}
  /\ UNCHANGED <<callerVars, handlers, mainVars, last_response, url, api_responses, result, data, probeVars>>

\* The order in which close() closes.
CloseOrder == <<"page", "context", "browser", "playwright">>

\* The resources close() reaches when the k-th close call is the first to
\* raise (k = 0: none raises): the one try block ends at the first exception.
ClosedBy(k) == IF k = 0 THEN 1..4 ELSE 1..(k - 1)

\* __exit__: close().
Exit ==
  /\ pc \in {"exiting", "exiting by exception"}
  /\ \E k \in 0..4 :
       scraper' = SetStates(scraper, CloseOrder, ClosedBy(k), "closed")
  /\ pc' = IF pc = "exiting" THEN "exited" ELSE "exited by exception"
  /\ UNCHANGED <<callerVars, handlers, url, api_responses, last_response, result, data, probeVars, url_i,
                 all_products>>

InitBrowser ==
  /\ pc = "constructing"
  /\ url = CatalogUrl
  /\ api_responses = <<>>
  /\ result = Null
  /\ data = Null
  /\ settings = DefaultSettings
  /\ cache_file = NoFile
  /\ cache_write = "none"
  /\ products_count = 0
  /\ best_config = Null
  /\ test_configs = <<>>
  /\ probe_i = 0
  /\ max_products_found = 0
  /\ best_config_found = Null
  /\ probe_log = <<>>
  /\ api_response = Null
  /\ last_response = Null
  /\ scraper = NotStarted
  /\ url_i = 0
  /\ all_products = 0
  /\ handlers = 0
  /\ CallerIdle

NextBrowser == StartBrowser \/ ScrapeUrl \/ LeaveBlock \/ Exit

SpecBrowser == InitBrowser /\ [][NextBrowser]_vars

\* No resource that was started is still open.
NoneOpen == \A r \in DOMAIN scraper : scraper[r] # "open"

\* C17: browser resources are released on all exit paths: after the with
\* block has exited, normally or by exception, every resource that was started
\* has been closed, also when one of the close calls raised; and after a
\* _start_browser that failed part-way no started resource is left open.
C17_ResourcesReleased ==
  /\ pc \in {"exited", "exited by exception"} => NoneOpen
  /\ pc = "raised" => NoneOpen

-----------------------------------------------------------------------------
(* The pagination driver (SpecDriver): scrape_multiple_urls going through  *)
(* its start URLs and scrape_all_pages_api through the pages of each, on   *)
(* one scraper.  A scrape call is taken by the result it returns; what it  *)
(* does to the capture buffer is the matter of Spec and SpecProbe.         *)

\* The most start URLs of a run, and the largest max_pages argument.
MaxStartUrls == 2
MaxPagesArg == 2

OffersUrl == [path |-> <<<<"o", "f", "e", "r", "t", "a", "s">>>>, query |-> <<>>]

StartUrls == {CatalogUrl, OffersUrl}

\* The URLs a result may name as its next page.
DriverUrls == StartUrls \cup {NextPageUrl(u, 1) : u \in StartUrls}

\* The product lists of a page.
PageProducts == {parse_api_products(ProbeBody(n)) : n \in 0..MaxFound}

\* What scraper.scrape(u) returns, with the fields the driver reads: a page
\* result, or the failed result of the except branch.
ScrapeResults(u) ==
  {[url |-> u, products |-> products, product_count |-> Len(products),
    next_page |-> next_page] :
     products \in PageProducts, next_page \in {Null} \cup DriverUrls}
  \cup {ErrorResult(u)}

\* result.get(k, default)
ResultGet(r, k, default) == IF k \in DOMAIN r THEN r[k] ELSE default

\* The accumulation with the page's products taking the place of those of
\* the earlier pages.
ExtendReplacing(xs, ys) == ys

\* all_products.extend(products)
Extend(xs, ys) == xs \o ys

\* The loop test with one more page allowed.
WithinMaxPagesInclusive(current, num, maximum) == current # Null /\ num <= maximum + 1

\* while current_url and page_num <= max_pages
WithinMaxPages(current, num, maximum) == current # Null /\ num <= maximum

\* if next_page and next_page != current_url
HasNextPage(next_page, current) == next_page # Null /\ next_page # current

\* The calls of wait_between_requests(): the call, and the sleep it makes
\* when self.delay is positive.
WaitBetweenRequests(d) ==
  <<[op |-> "wait"]>> \o (IF d > 0 THEN <<[op |-> "sleep", seconds |-> d]>> ELSE <<>>)

\* The loop of scrape_multiple_urls takes its next URL and calls
\* scrape_all_pages_api, which sets its locals.
NextUrl ==
  /\ pc = "urls"
  /\ url_i < Len(urls)
  /\ url_i' = url_i + 1
  /\ current_url' = urls[url_i + 1]
  /\ page_num' = 1
  /\ all_products_api' = <<>>
  /\ pc' = "pages"
  /\ UNCHANGED <<url, api_responses, last_response, result, data, probeVars, scraper,
                 all_products, handlers, urls, max_pages, self_delay, retryVars, calls>>

\* One iteration of the while loop of scrape_all_pages_api: the page is
\* scraped, its products are added, and the loop goes on to the next page
\* after a wait, or is left.
ScrapePage ==
  /\ pc = "pages"
  /\ WithinMaxPages(current_url, page_num, max_pages)
  /\ \E r \in ScrapeResults(current_url) :
       LET products == ResultGet(r, "products", <<>>)
           next_page == ResultGet(r, "next_page", Null)
           scraped == [op |-> "scrape", i |-> url_i, failed |-> "error" \in DOMAIN r]
       IN /\ result' = r
          /\ all_products_api' = Extend(all_products_api, products)
          /\ IF HasNextPage(next_page, current_url)
             THEN /\ current_url' = next_page
                  /\ page_num' = page_num + 1
                  /\ calls' = (calls \o <<scraped>>) \o WaitBetweenRequests(self_delay)
                  /\ pc' = "pages"
             ELSE /\ calls' = calls \o <<scraped>>
                  /\ pc' = "break"
                  /\ UNCHANGED <<current_url, page_num>>
  /\ handlers' = handlers + 1
  /\ UNCHANGED <<url, api_responses, last_response, data, probeVars, mainVars, urls,
                 max_pages, self_delay, retryVars>>

\* The while loop is over, by its test or by break: scrape_all_pages_api
\* returns its list and scrape_multiple_urls adds it to its own.
ReturnPages ==
  /\ \/ pc = "break"
     \/ pc = "pages" /\ ~WithinMaxPages(current_url, page_num, max_pages)
  /\ all_products' = all_products + Len(all_products_api)
  /\ pc' = "urls"
  /\ UNCHANGED <<url, api_responses, last_response, result, data, probeVars, scraper,
                 url_i, handlers, driverVars, retryVars, calls>>

\* The loop over the URLs is over: scrape_multiple_urls returns.
ReturnUrls ==
  /\ pc = "urls"
  /\ url_i = Len(urls)
  /\ pc' = "returned"
  /\ UNCHANGED <<url, api_responses, last_response, result, data, probeVars, mainVars,
                 handlers, callerVars>>

InitDriver ==
  /\ pc = "urls"
  /\ url = CatalogUrl
  /\ api_responses = <<>>
  /\ result = Null
  /\ data = Null
  /\ last_response = Null
  /\ scraper = Started
  /\ url_i = 0
  /\ all_products = 0
  /\ handlers = 0
  /\ \E k \in 0..MaxStartUrls : urls \in [1..k -> StartUrls]
  /\ max_pages \in 0..MaxPagesArg
  /\ self_delay \in {0, 1}
  /\ current_url = Null
  /\ page_num = 0
  /\ all_products_api = <<>>
  /\ max_retries = 0
  /\ initial_delay = 0
  /\ backoff_factor = 0
  /\ attempt = 0
  /\ delay = 0
  /\ last_exception = Null
  /\ calls = <<>>
  /\ settings = DefaultSettings
  /\ cache_file = NoFile
  /\ cache_write = "none"
  /\ products_count = 0
  /\ best_config = Null
  /\ test_configs = <<>>
  /\ probe_i = 0
  /\ max_products_found = 0
  /\ best_config_found = Null
  /\ probe_log = <<>>
  /\ api_response = Null

NextDriver == NextUrl \/ ScrapePage \/ ReturnPages \/ ReturnUrls

SpecDriver == InitDriver /\ [][NextDriver]_vars

\* The driver under weak fairness: a step that can be taken is taken.
SpecDriverLive == SpecDriver /\ WF_vars(NextDriver)

\* The positions of the scrape calls in the calls made so far.
ScrapeCalls == {k \in 1..Len(calls) : calls[k].op = "scrape"}

\* Two consecutive scrape calls: none lies between them.
Consecutive(a, b) ==
  /\ a \in ScrapeCalls /\ b \in ScrapeCalls
  /\ a < b
  /\ \A k \in ScrapeCalls : ~(a < k /\ k < b)

\* C21: between any two consecutive page scrapes on one scraper, the last
\* page of one start URL and the first page of the next included,
\* wait_between_requests is called exactly once, and it sleeps for the
\* configured delay when the delay is positive.
C21_OneWaitBetweenScrapes ==
  \A a, b \in 1..Len(calls) :
    Consecutive(a, b) =>
      /\ Cardinality({k \in (a + 1)..(b - 1) : calls[k].op = "wait"}) = 1
      /\ self_delay > 0 =>
           Cardinality({k \in (a + 1)..(b - 1) :
                          calls[k] = [op |-> "sleep", seconds |-> self_delay]}) = 1

\* The scrape calls made for the i-th start URL.
ScrapesOf(i) == {k \in ScrapeCalls : calls[k].i = i}

\* A step that scrapes a page.
ScrapeStep == pc = "pages" /\ pc' \in {"pages", "break"}

\* The next_page and the products of a result, as result.get reads them.
NextPageOf(r) == IF "next_page" \in DOMAIN r THEN r.next_page ELSE [t |-> "null"]
ProductsOf(r) == IF "products" \in DOMAIN r THEN r.products ELSE <<>>

\* No start URL is scraped more than max_pages times.
PagesBounded == \A i \in 1..Len(urls) : Cardinality(ScrapesOf(i)) <= max_pages

\* Before its first page is scraped a start URL has no products.
FreshList == (pc = "pages" /\ ScrapesOf(url_i) = {}) => all_products_api = <<>>

\* A result whose next_page is null or the URL just scraped ends the loop.
StopsAtLastPage ==
  (ScrapeStep /\ NextPageOf(result') \in {[t |-> "null"], current_url}) => pc' = "break"

\* The products of the page scraped are added after those of the earlier pages.
Concatenates ==
  ScrapeStep => all_products_api' = all_products_api \o ProductsOf(result')

\* The list is returned as it stands and added to the caller's.
ReturnsList ==
  (pc # "urls" /\ pc' = "urls") =>
    /\ all_products_api' = all_products_api
    /\ all_products' = all_products + Len(all_products_api)

\* C26: scrape_all_pages_api terminates for every sequence of scrape results:
\* it makes at most max_pages scrape calls, also when the next_page URLs form
\* a cycle, stops after the first result whose next_page is null or equal to
\* the current URL, and returns the concatenation, in page order, of the
\* products of every page scraped.
C26_DriverTerminates ==
  /\ [](PagesBounded /\ FreshList)
  /\ [][StopsAtLastPage /\ Concatenates /\ ReturnsList]_vars
  /\ <>(pc = "returned")

\* One start URL whose pages name each other as next page was left at the
\* page limit, after two pages of two products each.
C26_Witness ==
  /\ pc = "returned"
  /\ Len(urls) = 1
  /\ max_pages = 2
  /\ Cardinality(ScrapesOf(1)) = 2
  /\ page_num = 3
  /\ current_url = urls[1]
  /\ Len(all_products_api) = 4

\* A failed result is the last one of its start URL.
FailureIsLast ==
  \A k \in ScrapeCalls :
    calls[k].failed => \A j \in ScrapesOf(calls[k].i) : j <= k

\* After a failed result the run goes on: when it has returned, the start
\* URL after the failed one was scraped.
FailureSkipsToNext ==
  pc = "returned" =>
    \A k \in ScrapeCalls :
      (calls[k].failed /\ calls[k].i < Len(urls) /\ max_pages >= 1) =>
        ScrapesOf(calls[k].i + 1) # {}

\* A failed result leaves the products of the earlier pages as they were.
FailureKeepsProducts ==
  (ScrapeStep /\ "error" \in DOMAIN result') =>
    /\ all_products_api' = all_products_api
    /\ pc' = "break"

\* What is returned after the loop was left is the list as it stood.
ReturnsAccumulated ==
  (pc = "break" /\ pc' # "break") =>
    /\ pc' = "urls"
    /\ all_products_api' = all_products_api
    /\ all_products' = all_products + Len(all_products_api)

\* C30: when a page scrape returns a failed result (error field, empty
\* products, no next_page), scrape_all_pages_api stops paginating that start
\* URL without raising and returns the products accumulated from the earlier
\* pages unchanged; scrape_multiple_urls then continues with the next start
\* URL.
C30_FailedPageEndsUrl ==
  /\ [](FailureIsLast /\ FailureSkipsToNext)
  /\ [][FailureKeepsProducts /\ ReturnsAccumulated]_vars

\* The second page of the first start URL failed after a first page with
\* products; the second start URL was scraped and the run returned with the
\* products of both.
C30_Witness ==
  /\ pc = "returned"
  /\ Len(urls) = 2
  /\ \E k \in ScrapesOf(1) :
       /\ calls[k].failed
       /\ \E j \in ScrapesOf(1) : j < k
  /\ ScrapesOf(2) # {}
  /\ ~calls[Len(calls)].failed
  /\ all_products > Len(all_products_api)
  /\ all_products_api # <<>>

-----------------------------------------------------------------------------
(* The retry wrapper (SpecRetry): retry_with_backoff around a function     *)
(* that returns or raises, with the exception types BaseScraper.fetch_page *)
(* is wrapped with.                                                        *)

\* The largest max_retries argument, and the largest initial_delay and
\* backoff_factor.
MaxRetries == 3
MaxDelay == 2

\* An exception of a type.
Exc(type) == [t |-> "exception", type |-> type]

\* exceptions=(requests.RequestException, requests.Timeout)
exceptions == {Exc("RequestException"), Exc("Timeout")}

\* What one invocation of func gives: a value, an exception of a configured
\* type, an exception of another type.
FuncOutcomes ==
  {[raises |-> FALSE, value |-> [t |-> "response"]]}
  \cup {[raises |-> TRUE, value |-> e] : e \in exceptions \cup {Exc("ValueError")}}

\* The sleep test with the last attempt sleeping as well.
SleepsAfterEveryFailure(n, retries) == n < retries

\* if attempt < max_retries - 1
SleepsBeforeRetry(n, retries) == n < retries - 1

\* One iteration of the wrapper's loop: func is invoked; its value is
\* returned, an exception of a configured type is kept and, unless this was
\* the last attempt, followed by a sleep and a longer delay, and any other
\* exception propagates.  attempt is the loop variable of the next iteration.
Attempt ==
  /\ pc = "retrying"
  /\ attempt < max_retries
  /\ \E outcome \in FuncOutcomes :
       LET invoked == [op |-> "func", outcome |-> outcome]
       IN IF outcome.raises /\ outcome.value \in exceptions
          THEN /\ last_exception' = outcome.value
               /\ IF SleepsBeforeRetry(attempt, max_retries)
                  THEN /\ calls' = calls \o <<invoked, [op |-> "sleep", seconds |-> delay]>>
                       /\ delay' = delay * backoff_factor
                  ELSE /\ calls' = calls \o <<invoked>>
                       /\ UNCHANGED delay
               /\ attempt' = attempt + 1
               /\ UNCHANGED <<pc, result>>
          ELSE /\ result' = outcome
               /\ pc' = IF outcome.raises THEN "raised" ELSE "returned"
               /\ calls' = calls \o <<invoked>>
               /\ UNCHANGED <<attempt, delay, last_exception>>
  /\ UNCHANGED <<url, api_responses, last_response, data, probeVars, mainVars, handlers,
                 driverVars, max_retries, initial_delay, backoff_factor>>

\* raise last_exception, after the loop; with no attempt made last_exception
\* is None and the raise statement itself raises TypeError.
Reraise ==
  /\ pc = "retrying"
  /\ attempt >= max_retries
  /\ result' = [raises |-> TRUE,
                value |-> IF last_exception = Null THEN Exc("TypeError")
                          ELSE last_exception]
  /\ pc' = "raised"
  /\ UNCHANGED <<url, api_responses, last_response, data, probeVars, mainVars, handlers,
                 callerVars>>

InitRetry ==
  /\ pc = "retrying"
  /\ url = CatalogUrl
  /\ api_responses = <<>>
  /\ result = Null
  /\ data = Null
  /\ last_response = Null
  /\ scraper = Started
  /\ url_i = 0
  /\ all_products = 0
  /\ handlers = 0
  /\ urls = <<>>
  /\ max_pages = 0
  /\ current_url = Null
  /\ page_num = 0
  /\ all_products_api = <<>>
  /\ self_delay = 0
  /\ max_retries \in 0..MaxRetries
  /\ initial_delay \in 1..MaxDelay
  /\ backoff_factor \in 1..MaxDelay
  /\ attempt = 0
  /\ delay = initial_delay
  /\ last_exception = Null
  /\ calls = <<>>
  /\ settings = DefaultSettings
  /\ cache_file = NoFile
  /\ cache_write = "none"
  /\ products_count = 0
  /\ best_config = Null
  /\ test_configs = <<>>
  /\ probe_i = 0
  /\ max_products_found = 0
  /\ best_config_found = Null
  /\ probe_log = <<>>
  /\ api_response = Null

NextRetry == Attempt \/ Reraise

SpecRetry == InitRetry /\ [][NextRetry]_vars

\* The positions of the invocations of func and of the sleeps.
Invocations == {k \in 1..Len(calls) : calls[k].op = "func"}
Sleeps == {k \in 1..Len(calls) : calls[k].op = "sleep"}

\* The exception types the wrapper is configured with.
Retryable == {[t |-> "exception", type |-> "RequestException"],
              [t |-> "exception", type |-> "Timeout"]}

\* The invocation at position k failed with a configured exception type.
FailedRetryably(k) == calls[k].outcome.raises /\ calls[k].outcome.value \in Retryable

RECURSIVE Power(_, _)
Power(b, n) == IF n = 0 THEN 1 ELSE b * Power(b, n - 1)

\* C27: for max_retries >= 1 the wrapped function is invoked at most
\* max_retries times; the first successful invocation's result is returned
\* with no further invocation; an exception outside the configured types
\* propagates at once, without a retry; after max_retries failures the last
\* exception is raised again; a sleep happens only between two attempts,
\* never after the final failure, and the delay is multiplied by
\* backoff_factor after each sleep.
C27_RetryPolicy ==
  max_retries >= 1 =>
    /\ Cardinality(Invocations) <= max_retries
    /\ \A k \in Invocations :
         ~FailedRetryably(k) =>
           /\ k = Len(calls)
           /\ result = calls[k].outcome
           /\ pc = IF calls[k].outcome.raises THEN "raised" ELSE "returned"
    /\ pc \in {"returned", "raised"} =>
         /\ calls # <<>>
         /\ calls[Len(calls)].op = "func"
         /\ FailedRetryably(Len(calls)) =>
              /\ pc = "raised"
              /\ Cardinality(Invocations) = max_retries
              /\ result = calls[Len(calls)].outcome
    /\ \A k \in Sleeps :
         /\ k > 1 /\ calls[k - 1].op = "func"
         /\ k < Len(calls) => calls[k + 1].op = "func"
         /\ k = Len(calls) => pc = "retrying" /\ Cardinality(Invocations) < max_retries
         /\ calls[k].seconds =
              initial_delay * Power(backoff_factor, Cardinality({j \in Sleeps : j < k}))

\* Three attempts failed, the first with one configured type and the last
\* with the other: two sleeps of 1 and 2 seconds lie between them and the
\* last exception was raised.
C27_Witness ==
  /\ pc = "raised"
  /\ max_retries = 3
  /\ initial_delay = 1
  /\ backoff_factor = 2
  /\ Len(calls) = 5
  /\ calls[1].outcome.value = Exc("RequestException")
  /\ calls[2] = [op |-> "sleep", seconds |-> 1]
  /\ calls[4] = [op |-> "sleep", seconds |-> 2]
  /\ calls[5].outcome.value = Exc("Timeout")
  /\ result = [raises |-> TRUE, value |-> Exc("Timeout")]

=============================================================================
